---- MODULE Spec2Model ----
(***************************************************************************)
(* WindPowers price-prediction pipeline (predict-prices script):           *)
(* the LinearRegression class and extractFeatures.                         *)
(*                                                                         *)
(* JavaScript numbers are represented in fixed point: the number r is the  *)
(* integer r * Scale, and every product or quotient is rounded to the      *)
(* nearest unit.  The non-number values the code can hold in a numeric     *)
(* slot (NaN, null, undefined) are kept as values of their own.            *)
(* JavaScript arrays are 0-based; sequences here are 1-based, so the       *)
(* element the code calls a[i] is a[i + 1] here.                           *)
(***************************************************************************)
EXTENDS Integers, Sequences, FiniteSets, TLC

\* Fixed-point unit: the integer Scale stands for the number 1.
Scale == 10 ^ 3

(***************************************************************************)
(* JavaScript values                                                       *)
(***************************************************************************)
Num(v) == [t |-> "num", v |-> v]
NaN == [t |-> "NaN"]
Null == [t |-> "null"]
Undefined == [t |-> "undefined"]
Arr(s) == [t |-> "array", a |-> s]
Str(s) == [t |-> "string", s |-> s]
\* A string whose characters matter, as the sequence of its character codes.
Text(c) == [t |-> "text", c |-> c]
Throw(e) == [t |-> "throw", e |-> e]

\* The fixed-point value of the integer literal k.
Lit(k) == Num(k * Scale)

\* A sequence of integer literals as an array of numbers.
Vec(s) == Arr([i \in 1..Len(s) |-> Lit(s[i])])

IsNum(v) == v.t = "num"

\* ToNumber: null is 0, undefined is NaN.
ToNumber(v) ==
  CASE v.t = "num" -> v
    [] v.t = "null" -> Num(0)
    [] OTHER -> NaN

\* ToBoolean: 0, NaN, null and undefined are falsy; arrays and objects truthy.
Truthy(v) ==
  CASE v.t = "num" -> v.v # 0
    [] v.t \in {"NaN", "null", "undefined"} -> FALSE
    [] v.t = "string" -> v.s # ""
    [] v.t = "text" -> v.c # <<>>
    [] OTHER -> TRUE

\* a / b for b > 0, rounded to the nearest integer.
RoundDiv(a, b) == (a + (b \div 2)) \div b

\* Numeric operators: the operands go through ToNumber, and NaN is contagious.
Add(a, b) ==
  IF a.t = "num" /\ b.t = "num" THEN Num(a.v + b.v)
  ELSE IF IsNum(ToNumber(a)) /\ IsNum(ToNumber(b))
       THEN Num(ToNumber(a).v + ToNumber(b).v) ELSE NaN

Sub(a, b) ==
  IF a.t = "num" /\ b.t = "num" THEN Num(a.v - b.v)
  ELSE IF IsNum(ToNumber(a)) /\ IsNum(ToNumber(b))
       THEN Num(ToNumber(a).v - ToNumber(b).v) ELSE NaN

Mul(a, b) ==
  IF a.t = "num" /\ b.t = "num" THEN Num(RoundDiv(a.v * b.v, Scale))
  ELSE IF IsNum(ToNumber(a)) /\ IsNum(ToNumber(b))
       THEN Num(RoundDiv(ToNumber(a).v * ToNumber(b).v, Scale)) ELSE NaN

\* a / n for a count n >= 1 (a length).
DivCount(a, n) ==
  IF a.t = "num" THEN Num(RoundDiv(a.v, n))
  ELSE IF IsNum(ToNumber(a)) THEN Num(RoundDiv(ToNumber(a).v, n)) ELSE NaN

\* a[i] of a JavaScript array (i is 1-based here): undefined past the end.
Index(arr, i) == IF i \in 1..Len(arr.a) THEN arr.a[i] ELSE Undefined

\* arr.length
Length(arr) == Len(arr.a)

(***************************************************************************)
(* class LinearRegression                                                  *)
(***************************************************************************)
\* 1 / 100 as an integer quotient.
learningRateTruncated == Num(1 \div 100)

\* learningRate = 0.01
learningRate == Num(Scale \div 100)
Iterations == 1000

\* The state of one LinearRegression object.
Model(w, b, names) ==
  [t |-> "model", weights |-> w, bias |-> b, featureNames |-> names]

\* constructor()
NewModel == Model(Null, Num(0), Arr(<<>>))

RECURSIVE DotFrom(_, _, _, _)
\* x.reduce((sum, val, i) => sum + val * weights[i], sum) from element i on.
DotFrom(x, w, i, sum) ==
  IF i > Length(x) THEN sum
  ELSE DotFrom(x, w, i + 1, Add(sum, Mul(x.a[i], Index(w, i))))

\* predict(x) without the unfitted-model guard: reading weights[i] of null fails.
predictUnguarded(m, x) ==
  IF m.weights.t # "array" THEN Throw("TypeError")
  ELSE DotFrom(x, m.weights, 1, m.bias)

\* predict(x)
predict(m, x) ==
  IF ~Truthy(m.weights) THEN Num(0)
  ELSE DotFrom(x, m.weights, 1, m.bias)

\* new Array(numFeatures).fill(0)
Zeros(numFeatures) == Arr([j \in 1..numFeatures |-> Num(0)])

\* errors = predictions.map((p, i) => p - y[i]), predictions = X.map(predict)
Errors(m, X, y) ==
  [i \in 1..Length(X) |-> Sub(predict(m, X.a[i]), Index(y, i))]

RECURSIVE GradientSum(_, _, _, _, _)
\* errors.reduce((sum, e, i) => sum + e * X[i][j], sum) from sample i on.
GradientSum(errors, X, j, i, sum) ==
  IF i > Len(errors) THEN sum
  ELSE GradientSum(errors, X, j, i + 1,
                   Add(sum, Mul(errors[i], Index(X.a[i], j))))

RECURSIVE ErrorSum(_, _, _)
\* errors.reduce((sum, e) => sum + e, sum) from sample i on.
ErrorSum(errors, i, sum) ==
  IF i > Len(errors) THEN sum
  ELSE ErrorSum(errors, i + 1, Add(sum, errors[i]))

RECURSIVE UpdateWeights(_, _, _, _, _)
\* for (j = ...; j < numFeatures; j++) weights[j] -= learningRate * gradient,
\* every gradient taken from the errors array computed before the loop.
UpdateWeights(w, errors, X, numFeatures, j) ==
  IF j > numFeatures THEN w
  ELSE LET gradient == DivCount(GradientSum(errors, X, j, 1, Num(0)), Length(X))
           wj == Sub(Index(w, j), Mul(learningRate, gradient))
       IN UpdateWeights(Arr([w.a EXCEPT ![j] = wj]), errors, X, numFeatures, j + 1)

RECURSIVE UpdateWeightsStale(_, _, _, _, _)
\* The weight loop with the errors recomputed from the weights updated so far.
UpdateWeightsStale(m, X, y, numFeatures, j) ==
  IF j > numFeatures THEN m.weights
  ELSE LET errors == Errors(m, X, y)
           gradient == DivCount(GradientSum(errors, X, j, 1, Num(0)), Length(X))
           wj == Sub(Index(m.weights, j), Mul(learningRate, gradient))
       IN UpdateWeightsStale([m EXCEPT !.weights = Arr([m.weights.a EXCEPT ![j] = wj])],
                             X, y, numFeatures, j + 1)

\* One pass of the gradient-descent loop body with per-weight error refresh.
FitIterationSequential(m, X, y) ==
  LET w == UpdateWeightsStale(m, X, y, Length(m.weights), 1)
      m1 == [m EXCEPT !.weights = w]
      errors == Errors(m1, X, y)
      biasGradient == DivCount(ErrorSum(errors, 1, Num(0)), Length(X))
  IN [m1 EXCEPT !.bias = Sub(m.bias, Mul(learningRate, biasGradient))]

\* One pass of the gradient-descent loop body.
FitIteration(m, X, y) ==
  LET errors == Errors(m, X, y)
      w == UpdateWeights(m.weights, errors, X, Length(m.weights), 1)
      biasGradient == DivCount(ErrorSum(errors, 1, Num(0)), Length(X))
  IN [m EXCEPT !.weights = w,
               !.bias = Sub(m.bias, Mul(learningRate, biasGradient))]

\* The loop condition of fit with the bound included.
FitContinuesInclusive(i) == i <= Iterations

\* iter < iterations
FitContinues(i) == i < Iterations

\* fit(X, y) up to the loop: X[0].length fails on an empty X; the weights
\* are replaced by zeros, the bias is left as it is.
FitEntry(m, X) ==
  IF Length(X) = 0 THEN Throw("TypeError")
  ELSE [m EXCEPT !.weights = Zeros(Length(X.a[1]))]

RECURSIVE FitLoop(_, _, _, _, _)
\* for (iter = from; iter < to; iter++) body: the passes from..to-1 in order,
\* evaluated as the first half of the range followed by the second half.
FitLoop(m, X, y, from, to) ==
  IF to - from <= 0 THEN m
  ELSE IF to - from = 1 THEN FitIteration(m, X, y)
  ELSE LET mid == from + ((to - from) \div 2)
           half == FitLoop(m, X, y, from, mid)
       IN IF half.t = "model" THEN FitLoop(half, X, y, mid, to) ELSE half

\* fit(X, y): the model after the call, or the exception it throws.
fit(m, X, y) ==
  LET m0 == FitEntry(m, X)
  IN IF m0.t = "throw" THEN m0 ELSE FitLoop(m0, X, y, 0, Iterations)

\* getCoefficients()
getCoefficients(m) ==
  [t |-> "object", weights |-> m.weights, bias |-> m.bias,
   featureNames |-> m.featureNames]

(***************************************************************************)
(* JSON text and the model file                                            *)
(***************************************************************************)
\* A property JSON.stringify leaves out, and a file that does not exist.
Absent == [t |-> "absent"]
NoFile == [t |-> "nofile"]
\* File content that is not JSON.
Garbage == [t |-> "garbage"]

\* JSON.stringify of a value that is no array: NaN becomes null, and so does
\* undefined as an array element.
JsonScalar(v) == IF v.t \in {"NaN", "undefined"} THEN Null ELSE v

\* JSON.stringify of a value.
JsonValue(v) ==
  IF v.t = "array" THEN Arr([i \in 1..Len(v.a) |-> JsonScalar(v.a[i])])
  ELSE JsonScalar(v)

\* JSON.stringify of an object's property: an undefined property is left out.
JsonProperty(v) == IF v.t = "undefined" THEN Absent ELSE JsonValue(v)

\* JSON.stringify(getCoefficients(), null, 2)
stringify(obj) ==
  [t |-> "text",
   weights |-> JsonProperty(obj.weights),
   bias |-> JsonProperty(obj.bias),
   featureNames |-> JsonProperty(obj.featureNames)]

\* data.<property> of a parsed text: undefined when the text lacks it.
Property(v) == IF v.t = "absent" THEN Undefined ELSE v

\* JSON.parse(fs.readFileSync(filepath))
parse(content) ==
  CASE content.t = "nofile" -> Throw("ENOENT")
    [] content.t = "garbage" -> Throw("SyntaxError")
    [] OTHER -> [t |-> "object",
                 weights |-> Property(content.weights),
                 bias |-> Property(content.bias),
                 featureNames |-> Property(content.featureNames)]

\* save(filepath): the content written.
save(m) == stringify(getCoefficients(m))

\* load(filepath) keeping the field the model has when the record lacks it.
loadMerging(m, content) ==
  LET data == parse(content)
  IN IF data.t = "throw" THEN data
     ELSE Model(IF data.weights.t = "undefined" THEN m.weights ELSE data.weights,
                IF data.bias.t = "undefined" THEN m.bias ELSE data.bias,
                IF data.featureNames.t = "undefined" THEN m.featureNames
                ELSE data.featureNames)

\* load(filepath): the model after the call, or the exception thrown.
load(m, content) ==
  LET data == parse(content)
  IN IF data.t = "throw" THEN data
     ELSE Model(data.weights, data.bias, data.featureNames)

(***************************************************************************)
(* State                                                                   *)
(***************************************************************************)
VARIABLES
  weights,       \* this.weights of the current LinearRegression object
  bias,          \* this.bias
  featureNames,  \* this.featureNames
  modelFile,     \* content of the model file, with the model a save wrote it from
  last,          \* the last call: operation, argument, receiver before it, result
  ops,           \* calls made so far
  fits,          \* fit calls made so far
  pc,            \* position of the fit call being stepped through
  X,             \* fit's argument X
  y,             \* fit's argument y
  iter,          \* fit's loop variable
  TZ,            \* the process's time zone: local time minus UTC, in hours
  features,      \* the last extractFeatures call: arguments and result
  windFile,      \* content of the wind data file
  priceFile,     \* content of the price data file
  predictionFile,\* content of the prediction file
  now,           \* the instant the process runs at, in hours since 1970 (UTC)
  args,          \* the command line arguments of the process
  stage,         \* where the process is between main's calls
  training,      \* trainModel's caller and the data it trains on
  r2,            \* the R2 score the last trainModel reported
  failure,       \* the exception that ended the process
  generated,     \* what generatePredictions returned and what it used
  point,         \* fetchAllData's loop variable i
  retries,       \* fetchAllData's retries for the current point
  results,       \* fetchAllData's results
  parsed         \* the last parseWeatherResponse call: its argument and result

fitFrame == <<pc, X, y, iter>>
modelVars == <<weights, bias, featureNames, modelFile, last, ops, fits, fitFrame>>
featureVars == <<TZ, features>>
pipelineVars ==
  <<windFile, priceFile, predictionFile, now, args, stage, training, r2,
    failure, generated>>
fetchVars == <<point, retries, results, parsed>>
vars == <<modelVars, featureVars, pipelineVars, fetchVars>>

this == Model(weights, bias, featureNames)

\* The fields of the current object become those of m.
Becomes(m) ==
  /\ weights' = m.weights
  /\ bias' = m.bias
  /\ featureNames' = m.featureNames

(***************************************************************************)
(* Inputs                                                                  *)
(***************************************************************************)
MaxOps == 3
MaxFits == 1

\* The names without the one of the interaction term.
FeatureNamesShort ==
  Arr(<<Str("windSpeed"), Str("temperature"), Str("isWinter"),
        Str("isMorningPeak"), Str("isEveningPeak"), Str("isWeekend")>>)

\* The names trainModel gives the seven features.
FeatureNames ==
  Arr(<<Str("windSpeed"), Str("temperature"), Str("isWinter"),
        Str("isMorningPeak"), Str("isEveningPeak"), Str("isWeekend"),
        Str("windSpeed_x_isWinter")>>)

\* Training sets: y linear in one feature with the other feature zero (twice),
\* a general one, samples of different lengths, no sample at all, and fewer
\* targets than samples.
Dataset(d) ==
  CASE d = "linear" ->
         [X |-> Arr(<<Vec(<<1, 0>>), Vec(<<2, 0>>), Vec(<<3, 0>>)>>),
          y |-> Vec(<<10, 20, 30>>)]
    [] d = "linear2" ->
         [X |-> Arr(<<Vec(<<0, 2>>), Vec(<<0, 4>>)>>),
          y |-> Vec(<<6, 12>>)]
    [] d = "mixed" ->
         [X |-> Arr(<<Vec(<<1, 2>>), Vec(<<2, 1>>), Vec(<<0, 1>>)>>),
          y |-> Vec(<<5, 4, 1>>)]
    [] d = "ragged" ->
         [X |-> Arr(<<Vec(<<1, 2>>), Vec(<<1>>)>>),
          y |-> Vec(<<1, 2>>)]
    [] d = "empty" ->
         [X |-> Arr(<<>>), y |-> Arr(<<>>)]
    [] d = "short" ->
         [X |-> Arr(<<Vec(<<1, 0>>), Vec(<<2, 0>>)>>),
          y |-> Vec(<<3>>)]

Datasets == {"linear", "linear2", "mixed", "ragged", "empty", "short"}

\* The training sets of the whole-call fit of Spec.
LifecycleDatasets == {"linear2", "ragged", "empty"}

\* Vectors predict is called with.
PredictInputs == {Vec(<<>>), Vec(<<4, 0>>), Vec(<<1, 2, 3, 4, 5, 6, 7>>)}

\* Model files found on disk: a record of an earlier run, a record that holds
\* only weights, and a file that is not JSON.
StoredRecord ==
  [t |-> "text", weights |-> Vec(<<2, -1>>), bias |-> Lit(300),
   featureNames |-> Arr(<<Str("a"), Str("b")>>)]
WeightsOnlyRecord ==
  [t |-> "text", weights |-> Vec(<<1, 1>>), bias |-> Absent,
   featureNames |-> Absent]
FilesOnDisk == {StoredRecord, WeightsOnlyRecord, Garbage}

(***************************************************************************)
(* Calls on a LinearRegression object                                      *)
(***************************************************************************)
Call(op, arg, ret) ==
  /\ ops < MaxOps
  /\ ops' = ops + 1
  /\ last' = [op |-> op, arg |-> arg, pre |-> this, ret |-> ret]

\* No extractFeatures call yet.
NoCall == [t |-> "none"]

\* The fetch script is not running and has not run.
NoFetch ==
  /\ point = 0
  /\ retries = 0
  /\ results = Undefined
  /\ parsed = NoCall

\* No process of the prediction script is running or has run.
NoProcess ==
  /\ windFile = NoFile
  /\ priceFile = NoFile
  /\ predictionFile = NoFile
  /\ now = 0
  /\ args = {}
  /\ stage = "none"
  /\ training = NoCall
  /\ r2 = Undefined
  /\ failure = Undefined
  /\ generated = NoCall

Idle == [op |-> "none", arg |-> Undefined, pre |-> Undefined, ret |-> Undefined]

\* new LinearRegression()
Construct ==
  /\ Call("new", Undefined, Undefined)
  /\ Becomes(NewModel)
  /\ UNCHANGED <<modelFile, fits, fitFrame, featureVars, pipelineVars, fetchVars>>

\* model.featureNames = [...] (trainModel)
SetFeatureNames ==
  /\ Call("featureNames", FeatureNames, Undefined)
  /\ featureNames' = FeatureNames
  /\ UNCHANGED <<weights, bias, modelFile, fits, fitFrame, featureVars, pipelineVars, fetchVars>>

\* model.fit(X, y), the whole call
Fit ==
  \E d \in LifecycleDatasets :
    /\ fits < MaxFits
    /\ fits' = fits + 1
    /\ \E r \in {fit(this, Dataset(d).X, Dataset(d).y)} :
         IF r.t = "throw"
         THEN Call("fit", Str(d), r) /\ UNCHANGED <<weights, bias, featureNames>>
         ELSE Call("fit", Str(d), Str("this")) /\ Becomes(r)
    /\ UNCHANGED <<modelFile, fitFrame, featureVars, pipelineVars, fetchVars>>

\* model.predict(x)
Predict ==
  \E x \in PredictInputs :
    /\ Call("predict", x, predict(this, x))
    /\ UNCHANGED <<weights, bias, featureNames, modelFile, fits, fitFrame, featureVars, pipelineVars, fetchVars>>

\* model.save(CONFIG.modelFile)
Save ==
  /\ Call("save", Undefined, Undefined)
  /\ modelFile' = [content |-> save(this), savedFrom |-> this]
  /\ UNCHANGED <<weights, bias, featureNames, fits, fitFrame, featureVars, pipelineVars, fetchVars>>

\* model.load(CONFIG.modelFile)
Load ==
  /\ \E r \in {load(this, modelFile.content)} :
       IF r.t = "throw"
       THEN Call("load", Undefined, r) /\ UNCHANGED <<weights, bias, featureNames>>
       ELSE Call("load", Undefined, Str("this")) /\ Becomes(r)
  /\ UNCHANGED <<modelFile, fits, fitFrame, featureVars, pipelineVars, fetchVars>>

\* The model file as another run or another program left it.
WriteModelFile ==
  \E c \in FilesOnDisk :
    /\ ops < MaxOps
    /\ ops' = ops + 1
    /\ modelFile' = [content |-> c, savedFrom |-> Undefined]
    /\ UNCHANGED <<weights, bias, featureNames, last, fits, fitFrame, featureVars, pipelineVars, fetchVars>>

Init ==
  /\ weights = NewModel.weights
  /\ bias = NewModel.bias
  /\ featureNames = NewModel.featureNames
  /\ modelFile = [content |-> NoFile, savedFrom |-> Undefined]
  /\ last = Idle
  /\ ops = 0
  /\ fits = 0
  /\ pc = "idle"
  /\ X = Undefined
  /\ y = Undefined
  /\ iter = 0
  /\ TZ = 0
  /\ features = NoCall
  /\ NoProcess
  /\ NoFetch

Next ==
  \/ Construct
  \/ SetFeatureNames
  \/ Fit
  \/ Predict
  \/ Save
  \/ Load
  \/ WriteModelFile

Spec == Init /\ [][Next]_vars

(***************************************************************************)
(* fit, one pass of its loop at a time                                     *)
(***************************************************************************)
\* Receivers of a fit call: a new object, one loaded from a stored record,
\* one loaded from a record that holds only weights.
FitReceivers ==
  {NewModel, load(NewModel, StoredRecord), load(NewModel, WeightsOnlyRecord)}

\* fit(X, y): the entry, up to the first test of the loop condition
FitCall ==
  \E d \in Datasets :
    /\ pc = "idle"
    /\ fits < MaxFits
    /\ fits' = fits + 1
    /\ \E r \in {FitEntry(this, Dataset(d).X)} :
         IF r.t = "throw"
         THEN /\ last' = [op |-> "fit", arg |-> Str(d), pre |-> this, ret |-> r]
              /\ UNCHANGED <<weights, bias, featureNames, pc, X, y, iter>>
         ELSE /\ last' = [op |-> "fit", arg |-> Str(d), pre |-> this,
                          ret |-> Undefined]
              /\ Becomes(r)
              /\ X' = Dataset(d).X
              /\ y' = Dataset(d).y
              /\ iter' = 0
              /\ pc' = "loop"
    /\ UNCHANGED <<modelFile, ops, featureVars, pipelineVars, fetchVars>>

\* One pass of the loop body, and iter++
FitStep ==
  /\ pc = "loop"
  /\ FitContinues(iter)
  /\ Becomes(FitIteration(this, X, y))
  /\ iter' = iter + 1
  /\ UNCHANGED <<modelFile, last, ops, fits, pc, X, y, featureVars, pipelineVars, fetchVars>>

\* return this
FitReturn ==
  /\ pc = "loop"
  /\ ~FitContinues(iter)
  /\ pc' = "idle"
  /\ last' = [last EXCEPT !.ret = Str("this")]
  /\ UNCHANGED <<weights, bias, featureNames, modelFile, ops, fits, X, y, iter, featureVars, pipelineVars, fetchVars>>

InitFit ==
  /\ \E m \in FitReceivers :
       /\ weights = m.weights
       /\ bias = m.bias
       /\ featureNames = m.featureNames
  /\ modelFile = [content |-> NoFile, savedFrom |-> Undefined]
  /\ last = Idle
  /\ ops = 0
  /\ fits = 0
  /\ pc = "idle"
  /\ X = Undefined
  /\ y = Undefined
  /\ iter = 0
  /\ TZ = 0
  /\ features = NoCall
  /\ NoProcess
  /\ NoFetch

NextFit ==
  \/ FitCall
  \/ FitStep
  \/ FitReturn

SpecFit == InitFit /\ [][NextFit]_vars

(***************************************************************************)
(* Properties of fit                                                       *)
(***************************************************************************)
\* The last call was a fit that returned.
FitReturned == pc = "idle" /\ last.op = "fit" /\ last.ret = Str("this")

\* The training set the last fit was called with.
LastX == Dataset(last.arg.s).X
LastY == Dataset(last.arg.s).y

\* X is empty, or its samples do not all have the length of the first.
InvalidInput(XX) ==
  \/ Length(XX) = 0
  \/ \E i \in 1..Length(XX) : Length(XX.a[i]) # Length(XX.a[1])

RECURSIVE SumTo(_, _)
\* f[1] + ... + f[n], added from the left starting at 0.
SumTo(f, n) == IF n = 0 THEN Num(0) ELSE Add(SumTo(f, n - 1), f[n])

\* What fit makes of a new object, per training set.
FreshFit ==
  [d \in Datasets \ {"empty"} |-> fit(NewModel, Dataset(d).X, Dataset(d).y)]

\* C2: fit starts gradient descent from weights = 0 and bias = 0 whatever the
\* receiver held before, so the result depends on X and y alone: it is what
\* fit makes of a new object.
C2_FitIgnoresPriorState ==
  /\ (pc = "loop" /\ iter = 0) =>
       (weights = Zeros(Length(X.a[1])) /\ bias = Num(0))
  /\ FitReturned =>
       (weights = FreshFit[last.arg.s].weights /\ bias = FreshFit[last.arg.s].bias)

\* The error of sample i under the weights and bias the pass starts with.
StartError(i) == Sub(predict(this, X.a[i]), Index(y, i))

\* The weight j and the bias a pass must leave, every gradient being the mean
\* over the samples of products with the errors at the start of the pass.
SynchronousWeight(j) ==
  Sub(weights.a[j],
      Mul(learningRate,
          DivCount(SumTo([i \in 1..Length(X) |->
                            Mul(StartError(i), Index(X.a[i], j))], Length(X)),
                   Length(X))))
SynchronousBias ==
  Sub(bias,
      Mul(learningRate,
          DivCount(SumTo([i \in 1..Length(X) |-> StartError(i)], Length(X)),
                   Length(X))))

\* C3: in one pass of fit's loop every weight and the bias are updated from
\* the errors computed at the start of the pass; no weight updated earlier in
\* the pass influences a later weight or the bias.
C3_SynchronousUpdate ==
  [][(pc = "loop" /\ iter' = iter + 1) =>
       /\ weights' = Arr([j \in 1..Length(weights) |-> SynchronousWeight(j)])
       /\ bias' = SynchronousBias]_vars

\* A pass has run on a training set with two non-zero feature columns.
C3_Witness ==
  /\ pc = "loop" /\ iter = 2 /\ last.arg = Str("mixed")
  /\ \A j \in 1..Length(weights) : IsNum(weights.a[j]) /\ weights.a[j].v # 0

\* One step of a fit call counts its passes: the loop starts at 0, a pass adds
\* one, and the call returns only once 1000 passes are made.
CountsPasses ==
  /\ (pc = "idle" /\ pc' = "loop") => iter' = 0
  /\ (pc = "loop" /\ pc' = "loop") => iter' = iter + 1
  /\ (pc = "loop" /\ pc' = "idle") => iter = 1000

\* C4: fit on a non-empty X makes exactly 1000 passes and then returns,
\* whatever the input: the loop variable never goes beyond 1000, goes up by
\* one with every pass, and the call returns at 1000 and not before.
C4_ExactlyThousandPasses ==
  [](pc = "loop" => iter \in 0..1000) /\ [][CountsPasses]_vars

\* A fit has returned after its passes.
C4_Witness == FitReturned /\ iter = Iterations

\* C5: fit on an empty X or on samples of different lengths fails with an
\* error and leaves the receiver as it was.
C5_InvalidInputRejected ==
  (last.op = "fit" /\ InvalidInput(LastX)) =>
    (pc = "idle" /\ last.ret.t = "throw" /\ this = last.pre)

\* y = k * X[.][j] for one feature j and a k # 0, every other feature zero.
LinearInOneFeature(XX, yy) ==
  /\ ~InvalidInput(XX)
  /\ Length(yy) = Length(XX)
  /\ \E j \in 1..Length(XX.a[1]) : \E k \in 1..20 :
       /\ \E i \in 1..Length(XX) : XX.a[i].a[j].v # 0
       /\ \A i \in 1..Length(XX) :
            /\ yy.a[i].v = k * XX.a[i].a[j].v
            /\ \A h \in 1..Length(XX.a[1]) : h # j => XX.a[i].a[h].v = 0

\* Mean squared error of m's predictions over the training set.
MeanSquaredError(m, XX, yy) ==
  DivCount(SumTo([i \in 1..Length(XX) |->
                    Mul(Sub(predict(m, XX.a[i]), Index(yy, i)),
                        Sub(predict(m, XX.a[i]), Index(yy, i)))], Length(XX)),
           Length(XX))

\* The last fit was called on a new object with y linear in one feature.
FreshLinearFit ==
  /\ FitReturned
  /\ last.pre = [NewModel EXCEPT !.featureNames = last.pre.featureNames]
  /\ LinearInOneFeature(LastX, LastY)

C1_UnfittedPredictIsZero ==
  (last.op = "predict" /\ last.pre.weights = Null) => last.ret = Num(0)

\* predict was called with a 7-vector on a new object.
C1_Witness ==
  /\ last.op = "predict"
  /\ last.pre = NewModel
  /\ last.arg = Vec(<<1, 2, 3, 4, 5, 6, 7>>)

\* C7: a load of the file a save wrote leaves the weights, bias and
\* featureNames the saving object had.
C7_SaveLoadRoundTrip ==
  (last.op = "load" /\ last.ret = Str("this") /\ modelFile.savedFrom # Undefined)
    => this = modelFile.savedFrom

(***************************************************************************)
(* Dates: strings are sequences of character codes                         *)
(***************************************************************************)
\* The character of the decimal digit n.
Digit(n) == 48 + n
TwoDigits(n) == <<Digit(n \div 10), Digit(n % 10)>>
FourDigits(n) ==
  <<Digit(n \div 1000), Digit((n \div 100) % 10), Digit((n \div 10) % 10),
    Digit(n % 10)>>

\* date.toISOString().split('T')[0] of the day y-m-d: "YYYY-MM-DD"
IsoDate(yy, mm, dd) ==
  FourDigits(yy) \o <<45>> \o TwoDigits(mm) \o <<45>> \o TwoDigits(dd)

\* "YYYY-MM-DDTHH:MM", a local date-time
IsoDateTime(yy, mm, dd, hh, mi) ==
  IsoDate(yy, mm, dd) \o <<84>> \o TwoDigits(hh) \o <<58>> \o TwoDigits(mi)

IsDigit(c) == c \in 48..57
Number2(str, i) == (str[i] - 48) * 10 + (str[i + 1] - 48)
Number4(str, i) == Number2(str, i) * 100 + Number2(str, i + 2)

\* Days from 1970-01-01 to the day y-m-d of the Gregorian calendar.
DaysFromCivil(yy, mm, dd) ==
  LET y1 == IF mm <= 2 THEN yy - 1 ELSE yy
      era == y1 \div 400
      yoe == y1 - era * 400
      mp == (mm + 9) % 12
      doy == ((153 * mp + 2) \div 5) + dd - 1
      doe == yoe * 365 + (yoe \div 4) - (yoe \div 100) + doy
  IN era * 146097 + doe - 719468

\* The month (1..12) of the day that lies `days` days after 1970-01-01.
MonthFromDays(days) ==
  LET z == days + 719468
      era == z \div 146097
      doe == z - era * 146097
      yoe == (doe - (doe \div 1460) + (doe \div 36524) - (doe \div 146096)) \div 365
      doy == doe - (365 * yoe + (yoe \div 4) - (yoe \div 100))
      mp == (5 * doy + 2) \div 153
  IN IF mp < 10 THEN mp + 3 ELSE mp - 9

\* "YYYY-MM-DD"
IsDateOnly(str) ==
  /\ Len(str) = 10
  /\ \A i \in {1, 2, 3, 4, 6, 7, 9, 10} : IsDigit(str[i])
  /\ str[5] = 45 /\ str[8] = 45
  /\ Number2(str, 6) \in 1..12 /\ Number2(str, 9) \in 1..31

\* "YYYY-MM-DDTHH:MM"
IsDateTime(str) ==
  /\ Len(str) = 16
  /\ IsDateOnly(SubSeq(str, 1, 10))
  /\ str[11] = 84 /\ str[14] = 58
  /\ \A i \in {12, 13, 15, 16} : IsDigit(str[i])
  /\ Number2(str, 12) \in 0..23 /\ Number2(str, 15) \in 0..59

\* String(v)
String(v) ==
  IF v.t = "text" THEN v.c
  ELSE <<117, 110, 100, 101, 102, 105, 110, 101, 100>>  \* "undefined"

InvalidDate == [t |-> "date", valid |-> FALSE, hours |-> 0]

\* new Date(v): a date-only string is UTC midnight, a date-time string without
\* offset is local time, anything else is an Invalid Date.  The date is kept
\* as the local time in whole hours since 1970-01-01T00:00 local.
NewDate(v, tz) ==
  IF v.t # "text" THEN InvalidDate
  ELSE LET str == v.c
       IN IF IsDateOnly(str)
          THEN [t |-> "date", valid |-> TRUE,
                hours |-> DaysFromCivil(Number4(str, 1), Number2(str, 6),
                                        Number2(str, 9)) * 24 + tz]
          ELSE IF IsDateTime(str)
          THEN [t |-> "date", valid |-> TRUE,
                hours |-> DaysFromCivil(Number4(str, 1), Number2(str, 6),
                                        Number2(str, 9)) * 24 + Number2(str, 12)]
          ELSE InvalidDate

\* date.getHours(), date.getDay(), date.getMonth(): NaN of an Invalid Date.
getHours(date) == IF date.valid THEN Lit(date.hours % 24) ELSE NaN
getDay(date) == IF date.valid THEN Lit(((date.hours \div 24) + 4) % 7) ELSE NaN
getMonth(date) ==
  IF date.valid THEN Lit(MonthFromDays(date.hours \div 24) - 1) ELSE NaN

\* a >= b, a <= b and a === b on numbers: false when an operand is NaN.
Ge(a, b) == IsNum(ToNumber(a)) /\ IsNum(ToNumber(b)) /\ ToNumber(a).v >= ToNumber(b).v
Le(a, b) == IsNum(ToNumber(a)) /\ IsNum(ToNumber(b)) /\ ToNumber(a).v <= ToNumber(b).v
StrictEq(a, b) == IsNum(a) /\ IsNum(b) /\ a.v = b.v

\* cond ? 1 : 0
Flag(cond) == IF cond THEN Lit(1) ELSE Lit(0)

(***************************************************************************)
(* extractFeatures                                                         *)
(***************************************************************************)
\* The box test with its bounds excluded.
InFinlandExclusive(p) ==
  /\ Ge(p.lat, Lit(60)) /\ p.lat # Lit(60) /\ Le(p.lat, Lit(70)) /\ p.lat # Lit(70)
  /\ Ge(p.lon, Lit(20)) /\ p.lon # Lit(20) /\ Le(p.lon, Lit(32)) /\ p.lon # Lit(32)

\* p.lat >= 60 && p.lat <= 70 && p.lon >= 20 && p.lon <= 32
InFinland(p) ==
  /\ Ge(p.lat, Lit(60)) /\ Le(p.lat, Lit(70))
  /\ Ge(p.lon, Lit(20)) /\ Le(p.lon, Lit(32))

\* (windData && Array.isArray(windData)) ? windData.filter(...) : []
FinlandPoints(windData) ==
  IF Truthy(windData) /\ windData.t = "array"
  THEN SelectSeq(windData.a, InFinland) ELSE <<>>

\* The forecast test without the upper bound on the day index.
HasForecastForDayUnbounded(finlandPoints, dayIndex) ==
  dayIndex >= 0 /\ Len(finlandPoints) > 0

\* dayIndex >= 0 && dayIndex < 9 && finlandPoints.length > 0
HasForecastForDay(finlandPoints, dayIndex) ==
  dayIndex >= 0 /\ dayIndex < 9 /\ Len(finlandPoints) > 0

\* p.forecasts[dayIndex]?.<field> || 0
ForecastValue(p, dayIndex, field) ==
  LET entry == Index(p.forecasts, dayIndex + 1)
      value == IF entry.t \in {"undefined", "null"} THEN Undefined ELSE entry[field]
  IN IF Truthy(value) THEN value ELSE Lit(0)

RECURSIVE ForecastSum(_, _, _, _, _)
\* finlandPoints.reduce((sum, p) => sum + (...), sum) from point i on.
ForecastSum(finlandPoints, dayIndex, field, i, sum) ==
  IF i > Len(finlandPoints) THEN sum
  ELSE ForecastSum(finlandPoints, dayIndex, field, i + 1,
                   Add(sum, ForecastValue(finlandPoints[i], dayIndex, field)))

\* The average over the Finland points: the sum / (finlandPoints.length || 1)
ForecastAverage(finlandPoints, dayIndex, field) ==
  DivCount(ForecastSum(finlandPoints, dayIndex, field, 1, Lit(0)),
           IF Len(finlandPoints) = 0 THEN 1 ELSE Len(finlandPoints))

RECURSIVE CharCodeSum(_, _, _)
\* str.split('').reduce((a, c) => a + c.charCodeAt(0), a) from character i on.
CharCodeSum(str, i, a) ==
  IF i > Len(str) THEN a ELSE CharCodeSum(str, i + 1, a + str[i])

\* seed
Seed(targetDate) == CharCodeSum(String(targetDate), 1, 0)

\* The synthetic wind speed with the seed taken modulo 101.
SyntheticWindSpeedInclusive(seed) ==
  Add(Lit(3), Mul(DivCount(Lit(seed % 101), 100), Lit(8)))

\* 3 + (seed % 100) / 100 * 8 and -5 + (seed % 100) / 100 * 20
SyntheticWindSpeed(seed) ==
  Add(Lit(3), Mul(DivCount(Lit(seed % 100), 100), Lit(8)))
SyntheticTemperature(seed) ==
  Add(Lit(-5), Mul(DivCount(Lit(seed % 100), 100), Lit(20)))

\* The returned array with the weekend flag ahead of the two peak flags.
FeatureVectorWeekendFirst(avgWindSpeed, avgTemperature, isWinter, isMorningPeak, isEveningPeak, isWeekend) ==
  Arr(<<avgWindSpeed, avgTemperature, isWinter, isWeekend, isMorningPeak,
        isEveningPeak, Mul(avgWindSpeed, isWinter)>>)

\* return [avgWindSpeed, avgTemperature, isWinter, isMorningPeak,
\*         isEveningPeak, isWeekend, avgWindSpeed * isWinter]
FeatureVector(avgWindSpeed, avgTemperature, isWinter, isMorningPeak, isEveningPeak, isWeekend) ==
  Arr(<<avgWindSpeed, avgTemperature, isWinter, isMorningPeak, isEveningPeak,
        isWeekend, Mul(avgWindSpeed, isWinter)>>)

\* extractFeatures without its guards against an empty set of Finland points:
\* the forecast branch is taken on the day index alone and the sums are
\* divided by finlandPoints.length, which gives 0 / 0 when there is no point.
extractFeaturesUnguarded(windData, priceData, targetDate, dayIndexInPriceData, tz) ==
  LET finlandPoints == FinlandPoints(windData)
      hasForecastForDay == dayIndexInPriceData >= 0 /\ dayIndexInPriceData < 9
      seed == Seed(targetDate)
      average(field) ==
        IF Len(finlandPoints) = 0 THEN NaN
        ELSE DivCount(ForecastSum(finlandPoints, dayIndexInPriceData, field, 1, Lit(0)),
                      Len(finlandPoints))
      avgWindSpeed ==
        IF hasForecastForDay THEN average("windSpeed") ELSE SyntheticWindSpeed(seed)
      avgTemperature ==
        IF hasForecastForDay THEN average("temperature") ELSE SyntheticTemperature(seed)
      date == NewDate(targetDate, tz)
      hour == getHours(date)
      dayOfWeek == getDay(date)
      month == getMonth(date)
      isWinter == Flag(Ge(month, Lit(10)) \/ Le(month, Lit(2)))
      isWeekend == Flag(StrictEq(dayOfWeek, Lit(0)) \/ StrictEq(dayOfWeek, Lit(6)))
      isMorningPeak == Flag(Ge(hour, Lit(7)) /\ Le(hour, Lit(9)))
      isEveningPeak == Flag(Ge(hour, Lit(17)) /\ Le(hour, Lit(20)))
  IN FeatureVector(avgWindSpeed, avgTemperature, isWinter, isMorningPeak,
                   isEveningPeak, isWeekend)

\* extractFeatures(windData, priceData, targetDate, dayIndexInPriceData) in a
\* process whose time zone is tz
extractFeatures(windData, priceData, targetDate, dayIndexInPriceData, tz) ==
  LET finlandPoints == FinlandPoints(windData)
      hasForecastForDay == HasForecastForDay(finlandPoints, dayIndexInPriceData)
      seed == Seed(targetDate)
      avgWindSpeed ==
        IF hasForecastForDay
        THEN ForecastAverage(finlandPoints, dayIndexInPriceData, "windSpeed")
        ELSE SyntheticWindSpeed(seed)
      avgTemperature ==
        IF hasForecastForDay
        THEN ForecastAverage(finlandPoints, dayIndexInPriceData, "temperature")
        ELSE SyntheticTemperature(seed)
      date == NewDate(targetDate, tz)
      hour == getHours(date)
      dayOfWeek == getDay(date)
      month == getMonth(date)
      isWinter == Flag(Ge(month, Lit(10)) \/ Le(month, Lit(2)))
      isWeekend == Flag(StrictEq(dayOfWeek, Lit(0)) \/ StrictEq(dayOfWeek, Lit(6)))
      isMorningPeak == Flag(Ge(hour, Lit(7)) /\ Le(hour, Lit(9)))
      isEveningPeak == Flag(Ge(hour, Lit(17)) /\ Le(hour, Lit(20)))
  IN FeatureVector(avgWindSpeed, avgTemperature, isWinter, isMorningPeak,
                   isEveningPeak, isWeekend)

(***************************************************************************)
(* Inputs of extractFeatures                                               *)
(***************************************************************************)
\* A number given in thousandths.
Milli(k) == Num((k * Scale) \div 1000)

\* One DailyForecast and one ForecastPoint.
Forecast(windSpeed, temperature) ==
  [t |-> "object", windSpeed |-> windSpeed, temperature |-> temperature]
Point(lat, lon, forecasts) ==
  [t |-> "object", lat |-> lat, lon |-> lon, forecasts |-> Arr(forecasts)]

\* Nine daily forecasts: wind speed base + day, temperature day - base.
NineDays(base) == [d \in 1..9 |-> Forecast(Lit(base + d - 1), Lit(d - 1 - base))]

\* Points on the corners of the Finland box, inside it, and just outside it.
SouthWestCorner == Point(Lit(60), Lit(20), NineDays(4))
NorthEastCorner == Point(Lit(70), Lit(32), <<Forecast(Lit(7), Lit(-3))>>)
Calm == Point(Lit(65), Lit(25), [d \in 1..9 |-> Forecast(Lit(0), Lit(0))])
JustSouth == Point(Milli(59999), Lit(25), NineDays(50))
JustEast == Point(Lit(65), Milli(32001), NineDays(80))
JustNorth == Point(Milli(70001), Lit(25), NineDays(20))
JustWest == Point(Lit(65), Milli(19999), NineDays(30))

\* Three points in the box, two of them on its corners, among three outside.
MixedGrid ==
  Arr(<<JustSouth, SouthWestCorner, JustEast, NorthEastCorner, Calm, JustWest>>)

Grids ==
  { Null,
    [t |-> "object"],
    Arr(<<>>),
    Arr(<<JustSouth, JustEast, JustNorth, JustWest>>),
    MixedGrid,
    Arr(<<NorthEastCorner, JustNorth>>) }

PriceHistories ==
  { Null,
    Arr(<<[t |-> "object", date |-> Text(IsoDate(2024, 1, 13)), avgPrice |-> Lit(42)]>>) }

\* 2024-01-13 is a Saturday and 2024-01-31 has the same characters in another
\* order; 2024-03-31 is a Sunday; "n/a", "d" (code 100) and "c" (code 99)
\* are no dates.
Dates ==
  { Text(IsoDate(2024, 1, 13)),
    Text(IsoDate(2024, 1, 31)),
    Text(IsoDate(2024, 7, 1)),
    Text(IsoDateTime(2024, 3, 31, 8, 0)),
    Text(IsoDateTime(2024, 10, 15, 18, 30)),
    Text(<<110, 47, 97>>),
    Text(<<100>>),
    Text(<<99>>),
    Undefined }

DayIndexes == {-1, 0, 8, 9}

\* Hours east of UTC of the process's time zone.
TimeZones == {2, -5}

(***************************************************************************)
(* Calls of extractFeatures                                                *)
(***************************************************************************)
FeatureCall(windData, priceData, targetDate, dayIndex, ret) ==
  [t |-> "call", windData |-> windData, priceData |-> priceData,
   targetDate |-> targetDate, dayIndex |-> dayIndex, ret |-> ret]

\* extractFeatures(windData, priceData, targetDate, dayIndexInPriceData)
ExtractFeatures ==
  /\ \E windData \in Grids, priceData \in PriceHistories,
        targetDate \in Dates, dayIndex \in DayIndexes :
       features' =
         FeatureCall(windData, priceData, targetDate, dayIndex,
                     extractFeatures(windData, priceData, targetDate, dayIndex, TZ))
  /\ UNCHANGED <<modelVars, TZ, pipelineVars, fetchVars>>

InitFeatures ==
  /\ weights = NewModel.weights
  /\ bias = NewModel.bias
  /\ featureNames = NewModel.featureNames
  /\ modelFile = [content |-> NoFile, savedFrom |-> Undefined]
  /\ last = Idle
  /\ ops = 0
  /\ fits = 0
  /\ pc = "idle"
  /\ X = Undefined
  /\ y = Undefined
  /\ iter = 0
  /\ TZ \in TimeZones
  /\ features = NoCall
  /\ NoProcess
  /\ NoFetch

NextFeatures == ExtractFeatures

SpecFeatures == InitFeatures /\ [][NextFeatures]_vars

(***************************************************************************)
(* Properties of extractFeatures                                           *)
(***************************************************************************)
\* extractFeatures has been called and has returned.
FeaturesReturned == features.t = "call"

\* The positions of the grid's points that lie in latitude [60, 70] and
\* longitude [20, 32]; a grid that is no array has none.
InBox(windData) ==
  IF windData.t # "array" THEN {}
  ELSE { i \in 1..Len(windData.a) :
           /\ windData.a[i].lat.v >= 60 * Scale /\ windData.a[i].lat.v <= 70 * Scale
           /\ windData.a[i].lon.v >= 20 * Scale /\ windData.a[i].lon.v <= 32 * Scale }

\* The forecast and the synthetic branch, as the day index and the grid decide.
ForecastBranch(windData, dayIndex) ==
  dayIndex >= 0 /\ dayIndex < 9 /\ InBox(windData) # {}
SyntheticBranch(windData, dayIndex) == ~ForecastBranch(windData, dayIndex)

\* The sum of the character codes of the date string.
CodeSum(targetDate) ==
  LET codes == String(targetDate)
  IN SumTo([i \in 1..Len(codes) |-> Num(codes[i])], Len(codes)).v

\* The in-box sum of one forecast field at the day index, over the number of
\* in-box points; a point without an entry at that index adds 0.
BoxAverage(windData, dayIndex, field) ==
  LET n == Len(windData.a)
      term == [i \in 1..n |->
                 IF i \in InBox(windData)
                    /\ dayIndex + 1 <= Len(windData.a[i].forecasts.a)
                 THEN windData.a[i].forecasts.a[dayIndex + 1][field]
                 ELSE Num(0)]
  IN Num(RoundDiv(SumTo(term, n).v, Cardinality(InBox(windData))))

\* C8: extractFeatures returns exactly 7 values, in the order windSpeed,
\* temperature, isWinter, isMorningPeak, isEveningPeak, isWeekend,
\* windSpeed * isWinter, for every grid (null, no array, empty, populated),
\* every target date and every day index (negative, 0..8, 9).
C8_SevenFeaturesInOrder ==
  FeaturesReturned =>
    LET ret == features.ret
        date == NewDate(features.targetDate, TZ)
        forecast == ForecastBranch(features.windData, features.dayIndex)
        windSpeed ==
          IF forecast
          THEN BoxAverage(features.windData, features.dayIndex, "windSpeed")
          ELSE SyntheticWindSpeed(CodeSum(features.targetDate))
        temperature ==
          IF forecast
          THEN BoxAverage(features.windData, features.dayIndex, "temperature")
          ELSE SyntheticTemperature(CodeSum(features.targetDate))
        isWinter == Flag(Ge(getMonth(date), Lit(10)) \/ Le(getMonth(date), Lit(2)))
        isMorningPeak == Flag(Ge(getHours(date), Lit(7)) /\ Le(getHours(date), Lit(9)))
        isEveningPeak == Flag(Ge(getHours(date), Lit(17)) /\ Le(getHours(date), Lit(20)))
        isWeekend == Flag(getDay(date) \in {Lit(0), Lit(6)})
    IN /\ ret.t = "array"
       /\ Len(ret.a) = 7
       /\ ret.a = <<windSpeed, temperature, isWinter, isMorningPeak,
                    isEveningPeak, isWeekend, Mul(windSpeed, isWinter)>>

\* A Saturday night in January, forecast from the grid: the flags differ
\* from each other and the wind speed from the temperature.
C8_Witness ==
  /\ FeaturesReturned
  /\ features.windData = MixedGrid
  /\ features.dayIndex = 0
  /\ features.targetDate = Text(IsoDate(2024, 1, 13))
  /\ TZ = 2
  /\ Len(features.ret.a) = 7
  /\ features.ret.a[3] = Lit(1)
  /\ features.ret.a[4] = Lit(0)
  /\ features.ret.a[5] = Lit(0)
  /\ features.ret.a[6] = Lit(1)
  /\ features.ret.a[7] = features.ret.a[1]
  /\ features.ret.a[1] # features.ret.a[2]

\* C9: on the synthetic branch (day index outside 0..8, or no grid point in
\* the Finland box) windSpeed and temperature depend only on the character-code
\* sum of the date string: any other call on that branch whose date string
\* has the same sum returns the same two values, whatever its grid, its price
\* history and its day index.
C9_SyntheticFromDateOnly ==
  (FeaturesReturned /\ SyntheticBranch(features.windData, features.dayIndex)) =>
    \A windData \in Grids, priceData \in PriceHistories,
       targetDate \in Dates, dayIndex \in DayIndexes :
      (/\ SyntheticBranch(windData, dayIndex)
       /\ CodeSum(targetDate) = CodeSum(features.targetDate)) =>
        LET other == extractFeatures(windData, priceData, targetDate, dayIndex, TZ)
        IN /\ other.a[1] = features.ret.a[1]
           /\ other.a[2] = features.ret.a[2]

\* Day index 9 with points in the box: 487 is the sum of "2024-01-13", so the
\* wind speed is 3 + 0.87 * 8 and the temperature -5 + 0.87 * 20.
C9_Witness ==
  /\ FeaturesReturned
  /\ features.windData = MixedGrid
  /\ features.dayIndex = 9
  /\ features.targetDate = Text(IsoDate(2024, 1, 13))
  /\ features.ret.a[1] = Milli(9960)
  /\ features.ret.a[2] = Milli(12400)

\* C10: with 0 <= dayIndex < 9 and a grid point in latitude [60, 70] and
\* longitude [20, 32], bounds included, windSpeed and temperature are the sum
\* over exactly the in-box points of their forecast values at dayIndex, a
\* point without an entry there adding 0, divided by the number of in-box
\* points; the points outside the box have no influence.
C10_ForecastIsBoxAverage ==
  (FeaturesReturned /\ ForecastBranch(features.windData, features.dayIndex)) =>
    /\ features.ret.a[1] =
         BoxAverage(features.windData, features.dayIndex, "windSpeed")
    /\ features.ret.a[2] =
         BoxAverage(features.windData, features.dayIndex, "temperature")

\* Day 8 of the mixed grid: the south-west corner has 12 m/s and 4 degrees,
\* the north-east corner has no entry, the third in-box point is calm.
C10_Witness ==
  /\ FeaturesReturned
  /\ features.windData = MixedGrid
  /\ features.dayIndex = 8
  /\ features.ret.a[1] = Lit(4)
  /\ features.ret.a[2] = Milli(1333)

\* C11: on the synthetic branch, for every date string, windSpeed is
\* 3 + (seed mod 100) / 100 * 8 and lies in [3, 11), and temperature is
\* -5 + (seed mod 100) / 100 * 20 and lies in [-5, 15), seed being the sum of
\* the character codes of the date string.
C11_SyntheticRanges ==
  (FeaturesReturned /\ SyntheticBranch(features.windData, features.dayIndex)) =>
    LET k == CodeSum(features.targetDate) % 100
        windSpeed == features.ret.a[1]
        temperature == features.ret.a[2]
    IN /\ IsNum(windSpeed) /\ IsNum(temperature)
       /\ windSpeed.v * 100 = 3 * 100 * Scale + k * 8 * Scale
       /\ temperature.v * 100 = -5 * 100 * Scale + k * 20 * Scale
       /\ 3 * Scale <= windSpeed.v /\ windSpeed.v < 11 * Scale
       /\ -5 * Scale <= temperature.v /\ temperature.v < 15 * Scale

\* The date string "c" has the seed 99, the largest remainder: 10.92 and 14.8.
C11_Witness ==
  /\ FeaturesReturned
  /\ features.targetDate = Text(<<99>>)
  /\ SyntheticBranch(features.windData, features.dayIndex)
  /\ features.ret.a[1] = Milli(10920)
  /\ features.ret.a[2] = Milli(14800)

\* C12: for a grid with no point inside latitude [60, 70] and longitude
\* [20, 32] and a day index in 0..8, the windSpeed, the temperature and the
\* interaction term of the returned vector are numbers, none of them NaN.
C12_EmptyBoxGivesNumbers ==
  (/\ FeaturesReturned
   /\ InBox(features.windData) = {}
   /\ features.dayIndex \in 0..8) =>
    /\ Len(features.ret.a) = 7
    /\ IsNum(features.ret.a[1])
    /\ IsNum(features.ret.a[2])
    /\ IsNum(features.ret.a[7])

\* A populated grid whose points all lie outside the box, at day index 0.
C12_Witness ==
  /\ FeaturesReturned
  /\ features.windData = Arr(<<JustSouth, JustEast, JustNorth, JustWest>>)
  /\ features.dayIndex = 0
  /\ IsNum(features.ret.a[1])
  /\ features.ret.a[7] \in {Lit(0), features.ret.a[1]}

(***************************************************************************)
(* More of JavaScript: property access, Infinity, Math, JSON files          *)
(***************************************************************************)
\* The content of a file that holds the JSON text of value
Json(value) == [t |-> "json", value |-> value]

\* v.name: a TypeError on null and undefined, undefined when v lacks it.
Get(v, name) ==
  IF v.t \in {"null", "undefined"} THEN Throw("TypeError")
  ELSE IF v.t = "object" /\ name \in DOMAIN v THEN v[name]
  ELSE Undefined

\* JSON.parse(fs.readFileSync(file, 'utf-8')) of a data file
ReadJson(content) ==
  CASE content.t = "nofile" -> Throw("ENOENT")
    [] content.t = "garbage" -> Throw("SyntaxError")
    [] OTHER -> content.value

\* file.data || file
DataOrFile(file) ==
  LET data == Get(file, "data")
  IN IF data.t = "throw" THEN data
     ELSE IF Truthy(data) THEN data ELSE file

Infinity == [t |-> "Infinity", sign |-> 1]
NegInfinity == [t |-> "Infinity", sign |-> -1]
IsFinite(v) == v.t = "num"

\* a / b on numbers: x / 0 is an infinity and 0 / 0 is NaN.
Div(a, b) ==
  IF ~IsNum(a) \/ ~IsNum(b) THEN NaN
  ELSE IF b.v = 0
       THEN IF a.v = 0 THEN NaN ELSE IF a.v > 0 THEN Infinity ELSE NegInfinity
  ELSE LET n == IF a.v < 0 THEN -a.v ELSE a.v
           d == IF b.v < 0 THEN -b.v ELSE b.v
           q == (n \div d) * Scale + RoundDiv((n % d) * Scale, d)
       IN Num(IF (a.v < 0) = (b.v < 0) THEN q ELSE -q)

\* a - b where b may be an infinity.
Minus(a, b) ==
  IF b.t = "Infinity"
  THEN IF IsNum(a) THEN [t |-> "Infinity", sign |-> -b.sign] ELSE NaN
  ELSE Sub(a, b)

\* Math.pow(a, 2); the product is split so that it stays within the integers.
Square(a) ==
  IF ~IsNum(a) THEN NaN
  ELSE LET d == IF a.v < 0 THEN -a.v ELSE a.v
       IN Num((d \div Scale) * d + RoundDiv((d % Scale) * d, Scale))

\* Math.max(0, a): NaN when a is NaN.
MathMax0(a) ==
  LET n == ToNumber(a)
  IN IF ~IsNum(n) THEN NaN ELSE IF n.v > 0 THEN n ELSE Num(0)

\* Math.round(a * k) / k for k = 10 or 100
RoundTo(a, k) ==
  IF ~IsNum(a) THEN NaN
  ELSE LET scaled == a.v * k
           rounded == (scaled + (Scale \div 2)) \div Scale
       IN Num(RoundDiv(rounded * Scale, k))

(***************************************************************************)
(* Date objects: the local time in whole hours since 1970-01-01T00:00      *)
(***************************************************************************)
\* The year, month (1..12) and day of the day `days` days after 1970-01-01.
CivilFromDays(days) ==
  LET z == days + 719468
      era == z \div 146097
      doe == z - era * 146097
      yoe == (doe - (doe \div 1460) + (doe \div 36524) - (doe \div 146096)) \div 365
      doy == doe - (365 * yoe + (yoe \div 4) - (yoe \div 100))
      mp == (5 * doy + 2) \div 153
      mm == IF mp < 10 THEN mp + 3 ELSE mp - 9
  IN [year |-> yoe + era * 400 + (IF mm <= 2 THEN 1 ELSE 0),
      month |-> mm,
      day |-> doy - ((153 * mp + 2) \div 5) + 1]

\* new Date() at the instant utcHours (hours since 1970-01-01T00:00Z), and
\* new Date(date)
DateAt(utcHours, tz) == [t |-> "date", valid |-> TRUE, hours |-> utcHours + tz]

\* date.setDate(date.getDate() + days)
AddDays(date, days) == [date EXCEPT !.hours = @ + 24 * days]

\* date.setHours(hour)
SetHours(date, hour) == [date EXCEPT !.hours = (@ \div 24) * 24 + hour]

\* date.toISOString().split('T')[0]: the UTC day of the instant
ToISODate(date, tz) ==
  LET civil == CivilFromDays((date.hours - tz) \div 24)
  IN Text(IsoDate(civil.year, civil.month, civil.day))

(***************************************************************************)
(* Sample data generators                                                  *)
(***************************************************************************)
\* How many days before today generateSamplePriceData goes back.  The source
\* goes back 30 days; the model keeps the training set small.
SampleBack == 1

\* generateSampleWindData(): a grid of points at latitudes 55, 56.5, .. 70 and
\* longitudes 5, 6.5, .. 29, each with nine forecasts of a random wind speed
\* of at least 1 and a temperature around 5 - (lat - 55) * 0.4.  The model
\* keeps three of the points and draws the random numbers from two outcomes.
SamplePoint(lat, lon, speed, drift, noise) ==
  Point(Lit(lat), Lit(lon),
        [d \in 1..9 |->
           [t |-> "object",
            day |-> Lit(d - 1),
            windSpeed |-> Milli(speed + drift * (d - 1)),
            temperature |-> Milli(5000 - (lat - 55) * 400 + noise)]])

SampleWindGrids ==
  { Arr(<<SamplePoint(55, 5, 9000, 500, 2000),
          SamplePoint(61, 20, 3000, 250, -1000),
          SamplePoint(70, 29, 4000, -250, 1500)>>),
    Arr(<<SamplePoint(55, 5, 3000, 0, 0),
          SamplePoint(61, 20, 1000, 0, 2400),
          SamplePoint(70, 29, 5000, -500, -2500)>>) }

\* The random part (Math.random() - 0.5) * 40 of the sample prices, per record.
SamplePriceNoises ==
  { [i \in 1..(SampleBack + 1) |-> Milli(-20000 + 7000 * i)],
    [i \in 1..(SampleBack + 1) |-> Milli(19000 - 11000 * i)] }

\* generateSamplePriceData() for the date object today, with the random parts noise
generateSamplePriceData(today, tz, noise) ==
  Arr([i \in 1..(SampleBack + 1) |->
         LET date == AddDays(today, i - 1 - SampleBack)
             isWinter == Ge(getMonth(date), Lit(10)) \/ Le(getMonth(date), Lit(2))
             basePrice == IF isWinter THEN Lit(85) ELSE Lit(45)
         IN [t |-> "object",
             date |-> ToISODate(date, tz),
             avgPrice |-> Add(basePrice, noise[i])]])

(***************************************************************************)
(* trainModel                                                              *)
(***************************************************************************)
\* The try block that reads the two data files: both are replaced by sample
\* data when either read fails.
ReadTrainingFiles(windContent, priceContent, sampleWind, samplePrice) ==
  LET windJson == ReadJson(windContent)
      windData == IF windJson.t = "throw" THEN windJson ELSE DataOrFile(windJson)
      priceJson == IF windData.t = "throw" THEN windData ELSE ReadJson(priceContent)
      priceData == IF priceJson.t = "throw" THEN priceJson ELSE DataOrFile(priceJson)
  IN IF priceData.t = "throw"
     THEN [windData |-> sampleWind, priceData |-> samplePrice, sample |-> TRUE]
     ELSE [windData |-> windData, priceData |-> priceData, sample |-> FALSE]

\* if (!Array.isArray(windData)) windData = [];
\* if (!Array.isArray(priceData) || priceData.length === 0) priceData = sample
LoadTrainingData(windContent, priceContent, sampleWind, samplePrice) ==
  LET read == ReadTrainingFiles(windContent, priceContent, sampleWind, samplePrice)
      noPrices == read.priceData.t # "array" \/ Len(read.priceData.a) = 0
  IN [windData |-> IF read.windData.t = "array" THEN read.windData ELSE Arr(<<>>),
      priceData |-> IF noPrices THEN samplePrice ELSE read.priceData,
      sampleWind |-> read.sample,
      samplePrice |-> read.sample \/ noPrices]

\* dayData.avgPrice || 50 with any value of an absent or falsy price replaced.
TargetOrDefault(dayData) ==
  LET avgPrice == Get(dayData, "avgPrice")
  IN IF Truthy(avgPrice) THEN avgPrice ELSE Lit(50)

\* The priceData.forEach of trainModel: X and y, or the TypeError of a record
\* that is null.
BuildTrainingSet(windData, priceData, tz) ==
  LET n == Len(priceData.a)
  IN IF \E i \in 1..n : Get(priceData.a[i], "date").t = "throw"
     THEN Throw("TypeError")
     ELSE [t |-> "samples",
           X |-> Arr([i \in 1..n |->
                        extractFeatures(windData, priceData,
                                        Get(priceData.a[i], "date"), i - 1, tz)]),
           y |-> Arr([i \in 1..n |-> TargetOrDefault(priceData.a[i])])]

\* The R² score of trainModel: 1 - ssRes / ssTot
R2Score(m, XX, yy) ==
  LET n == Length(yy)
      predictions == [i \in 1..n |-> predict(m, XX.a[i])]
      meanY == DivCount(SumTo(yy.a, n), n)
      ssRes == SumTo([i \in 1..n |-> Square(Sub(predictions[i], yy.a[i]))], n)
      ssTot == SumTo([i \in 1..n |-> Square(Sub(yy.a[i], meanY))], n)
  IN Minus(Lit(1), Div(ssRes, ssTot))

(***************************************************************************)
(* The process: main, trainModel, generatePredictions                      *)
(***************************************************************************)
\* Price records: with a price, with the price 0, and without a price.
PricedRecord ==
  [t |-> "object", date |-> Text(IsoDate(2029, 7, 28)), avgPrice |-> Lit(42)]
FreeRecord ==
  [t |-> "object", date |-> Text(IsoDate(2029, 7, 29)), avgPrice |-> Lit(0)]
UnpricedRecord ==
  [t |-> "object", date |-> Text(IsoDate(2028, 12, 29))]

\* Contents of the wind data file: none, no JSON, an object holding the grid
\* under data, an empty array, and an object without data.
WindFiles ==
  { NoFile,
    Garbage,
    Json([t |-> "object", data |-> MixedGrid]),
    Json(Arr(<<>>)),
    Json([t |-> "object", error |-> Str("rate limited")]) }

\* Contents of the price data file: none, an object holding three records
\* under data, an array of one record, an array of no record, an object whose
\* data is no array, and an array that holds null.
PriceFiles ==
  { NoFile,
    Json([t |-> "object",
          data |-> Arr(<<PricedRecord, FreeRecord, UnpricedRecord>>)]),
    Json(Arr(<<PricedRecord>>)),
    Json(Arr(<<>>)),
    Json([t |-> "object", data |-> Lit(5)]),
    Json(Arr(<<PricedRecord, Null>>)) }

\* args.includes('--predict') || args.length === 0
WantsPredictions == "--predict" \in args \/ args = {}

\* The exception e leaves main: main().catch(console.error)
Fails(e) ==
  /\ stage' = "failed"
  /\ failure' = e

\* trainModel up to the first pass of fit: the data is loaded, X and y are
\* built, the model is constructed and named, and fit is entered.
TrainModelBegin(caller) ==
  \E sampleWind \in SampleWindGrids, noise \in SamplePriceNoises :
    LET data == LoadTrainingData(windFile, priceFile, sampleWind,
                  generateSamplePriceData(DateAt(now, TZ), TZ, noise))
        set == BuildTrainingSet(data.windData, data.priceData, TZ)
        model == Model(NewModel.weights, NewModel.bias, FeatureNames)
    IN IF set.t = "throw"
       THEN /\ Fails(set)
            /\ UNCHANGED <<modelVars, training>>
       ELSE \E r \in {FitEntry(model, set.X)} :
              IF r.t = "throw"
              THEN /\ Fails(r)
                   /\ UNCHANGED <<modelVars, training>>
              ELSE /\ Becomes(r)
                   /\ X' = set.X
                   /\ y' = set.y
                   /\ iter' = 0
                   /\ pc' = "loop"
                   /\ last' = [op |-> "fit", arg |-> Str("trainModel"),
                               pre |-> model, ret |-> Undefined]
                   /\ training' = [t |-> "call", caller |-> caller, data |-> data]
                   /\ stage' = "training"
                   /\ UNCHANGED <<modelFile, ops, fits, failure>>

\* main with --train: await trainModel()
MainTrain ==
  /\ stage = "start"
  /\ "--train" \in args
  /\ TrainModelBegin("main")
  /\ UNCHANGED <<featureVars, fetchVars, windFile, priceFile, predictionFile, now, args,
                 r2, generated>>

\* trainModel after fit: the R2 score is reported, the model is saved and
\* returned to the caller.
TrainModelEnd ==
  /\ stage = "training"
  /\ pc = "idle"
  /\ r2' = R2Score(this, X, y)
  /\ modelFile' = [content |-> save(this), savedFrom |-> this]
  /\ stage' = IF training.caller = "main" THEN "trained" ELSE "forecast"
  /\ UNCHANGED <<weights, bias, featureNames, last, ops, fits, fitFrame,
                 featureVars, fetchVars, windFile, priceFile, predictionFile, now, args,
                 training, failure, generated>>

\* main returns without generating predictions.
MainExit ==
  /\ stage = "trained" \/ (stage = "start" /\ "--train" \notin args)
  /\ ~WantsPredictions
  /\ stage' = "done"
  /\ UNCHANGED <<modelVars, featureVars, fetchVars, windFile, priceFile, predictionFile,
                 now, args, training, r2, failure, generated>>

(***************************************************************************)
(* Double-precision arithmetic, bit by bit, for 0.7 - day * 0.05           *)
(***************************************************************************)
\* A magnitude is a function from bit positions to 0 or 1, the bit at
\* position i weighing 2^(-i); positions run from 2^7 down to 2^(-64).
BitPositions == (0 - 7)..64
ZeroBits == [i \in BitPositions |-> 0]

\* The double 1.h1 h2 .. h13 (hexadecimal) * 2^(-shift)
HexDouble(h, shift) ==
  [i \in BitPositions |->
     IF i = shift THEN 1
     ELSE IF i > shift /\ i <= shift + 52
          THEN LET k == i - shift - 1
               IN (h[(k \div 4) + 1] \div (2 ^ (3 - (k % 4)))) % 2
          ELSE 0]

\* The 72 bits of f as nine bytes, the first holding 2^7 .. 2^0.
Byte(f, l) ==
  LET first == 8 * l - 15
  IN 128 * f[first] + 64 * f[first + 1] + 32 * f[first + 2] + 16 * f[first + 3]
     + 8 * f[first + 4] + 4 * f[first + 5] + 2 * f[first + 6] + f[first + 7]
Bytes(f) ==
  <<Byte(f, 1), Byte(f, 2), Byte(f, 3), Byte(f, 4), Byte(f, 5), Byte(f, 6),
    Byte(f, 7), Byte(f, 8), Byte(f, 9)>>

\* The bits of nine bytes.
BitsOf(bytes) ==
  [i \in BitPositions |->
     (bytes[((i + 7) \div 8) + 1] \div (2 ^ (7 - ((i + 7) % 8)))) % 2]

RECURSIVE CarryInto(_, _, _)
\* The carry into byte l when the bytes f and g are added.
CarryInto(f, g, l) ==
  IF l = 9 THEN 0 ELSE (f[l + 1] + g[l + 1] + CarryInto(f, g, l + 1)) \div 256

AddBytes(f, g) ==
  <<(f[1] + g[1] + CarryInto(f, g, 1)) % 256, (f[2] + g[2] + CarryInto(f, g, 2)) % 256,
    (f[3] + g[3] + CarryInto(f, g, 3)) % 256, (f[4] + g[4] + CarryInto(f, g, 4)) % 256,
    (f[5] + g[5] + CarryInto(f, g, 5)) % 256, (f[6] + g[6] + CarryInto(f, g, 6)) % 256,
    (f[7] + g[7] + CarryInto(f, g, 7)) % 256, (f[8] + g[8] + CarryInto(f, g, 8)) % 256,
    (f[9] + g[9]) % 256>>

\* f + g, and f - g for f >= g: f plus the two's complement of g.
AddBits(f, g) == BitsOf(AddBytes(Bytes(f), Bytes(g)))
SubBits(f, g) ==
  LET complement == Bytes([i \in BitPositions |-> 1 - g[i]])
      one == <<0, 0, 0, 0, 0, 0, 0, 0, 1>>
  IN BitsOf(AddBytes(Bytes(f), AddBytes(complement, one)))

\* f < g: at the first position where they differ, g has the 1.
LessBits(f, g) ==
  \E i \in BitPositions :
    /\ f[i] < g[i]
    /\ \A j \in BitPositions : j < i => f[j] = g[j]

RECURSIVE TimesBits(_, _)
\* n * f, exactly
TimesBits(f, n) == IF n = 0 THEN ZeroBits ELSE AddBits(TimesBits(f, n - 1), f)

\* f rounded to 53 significant bits, to nearest, ties to even
RoundBits(f) ==
  IF f = ZeroBits THEN f
  ELSE LET lead == CHOOSE i \in BitPositions :
                     f[i] = 1 /\ \A j \in BitPositions : j < i => f[j] = 0
           low == lead + 52
           kept == [i \in BitPositions |-> IF i <= low THEN f[i] ELSE 0]
           guard == IF low + 1 <= 64 THEN f[low + 1] ELSE 0
           sticky == \E i \in BitPositions : i > low + 1 /\ f[i] = 1
           unit == [i \in BitPositions |-> IF i = low THEN 1 ELSE 0]
       IN IF low >= 64 THEN f
          ELSE IF guard = 1 /\ (sticky \/ f[low] = 1) THEN AddBits(kept, unit)
          ELSE kept

\* A double: a sign and a magnitude.
Double(negative, bits) == [t |-> "double", negative |-> negative, bits |-> bits]

\* a - b on non-negative doubles
DoubleMinus(a, b) ==
  IF LessBits(a.bits, b.bits)
  THEN Double(TRUE, RoundBits(SubBits(b.bits, a.bits)))
  ELSE Double(FALSE, RoundBits(SubBits(a.bits, b.bits)))

\* n * a for an integer n >= 0 and a non-negative double a
DoubleTimes(n, a) == Double(FALSE, RoundBits(TimesBits(a.bits, n)))

\* The literals 0.7, 0.05, 0.1 and 0.3 as doubles
Double07 == Double(FALSE, HexDouble(<<6, 6, 6, 6, 6, 6, 6, 6, 6, 6, 6, 6, 6>>, 1))
Double005 == Double(FALSE, HexDouble(<<9, 9, 9, 9, 9, 9, 9, 9, 9, 9, 9, 9, 10>>, 5))
Double01 == Double(FALSE, HexDouble(<<9, 9, 9, 9, 9, 9, 9, 9, 9, 9, 9, 9, 10>>, 4))
Double03 == Double(FALSE, HexDouble(<<3, 3, 3, 3, 3, 3, 3, 3, 3, 3, 3, 3, 3>>, 2))

\* The confidence with a step of 0.1 a day.
ConfidenceSteep(day) == DoubleMinus(Double07, DoubleTimes(day, Double01))

\* 0.7 - day * 0.05
Confidence(day) == DoubleMinus(Double07, DoubleTimes(day, Double005))

(***************************************************************************)
(* generatePredictions                                                     *)
(***************************************************************************)
PredictionDays == 9
HoursPerDay == 24

\* The try block that reads the wind data file, sample data replacing it
\* when the read fails.
LoadForecastWind(windContent, sampleWind) ==
  LET windJson == ReadJson(windContent)
      windData == IF windJson.t = "throw" THEN windJson ELSE DataOrFile(windJson)
  IN IF windData.t = "throw"
     THEN [windData |-> sampleWind, sample |-> TRUE]
     ELSE [windData |-> windData, sample |-> FALSE]

\* forecast?.<field> || fallback, forecast being p.forecasts[day]
ForecastOr(p, day, field, fallback) ==
  LET entry == Index(p.forecasts, day + 1)
      value == IF entry.t \in {"undefined", "null"} THEN Undefined ELSE entry[field]
  IN IF Truthy(value) THEN value ELSE fallback

\* finlandPoints.reduce(...) / (finlandPoints.length || 1)
DayAverage(finlandPoints, day, field, fallback) ==
  LET n == Len(finlandPoints)
  IN DivCount(SumTo([i \in 1..n |-> ForecastOr(finlandPoints[i], day, field, fallback)], n),
              IF n = 0 THEN 1 ELSE n)

\* The features of one hour of the target day.
HourFeatures(avgWindSpeed, avgTemperature, date, hour) ==
  LET isWinter == Flag(Ge(getMonth(date), Lit(10)) \/ Le(getMonth(date), Lit(2)))
  IN Arr(<<avgWindSpeed,
           avgTemperature,
           isWinter,
           Flag(hour >= 7 /\ hour <= 9),
           Flag(hour >= 17 /\ hour <= 20),
           Flag(StrictEq(getDay(date), Lit(0)) \/ StrictEq(getDay(date), Lit(6))),
           Mul(avgWindSpeed, isWinter)>>)

\* The inner loop: { hour, price } for hour = 0 .. 23, the price clamped at 0
\* and rounded to cents.
HourlyPredictions(m, avgWindSpeed, avgTemperature, targetDate) ==
  Arr([h \in 1..HoursPerDay |->
         LET hour == h - 1
             date == SetHours(targetDate, hour)
             price == MathMax0(predict(m, HourFeatures(avgWindSpeed, avgTemperature,
                                                       date, hour)))
         IN [t |-> "object", hour |-> Lit(hour), price |-> RoundTo(price, 100)]])

\* The price level with the test against 150 ahead of the test against 100.
PriceLevelHighestFirst(avgPrice) ==
  IF IsNum(avgPrice) /\ avgPrice.v < 40 * Scale THEN Str("LOW")
  ELSE IF IsNum(avgPrice) /\ avgPrice.v > 150 * Scale THEN Str("VERY HIGH")
  ELSE IF IsNum(avgPrice) /\ avgPrice.v > 100 * Scale THEN Str("HIGH")
  ELSE Str("NORMAL")

\* let priceLevel = 'NORMAL'; if (avgPrice < 40) ... else if (avgPrice > 100)
\* ... else if (avgPrice > 150) ...
PriceLevel(avgPrice) ==
  IF IsNum(avgPrice) /\ avgPrice.v < 40 * Scale THEN Str("LOW")
  ELSE IF IsNum(avgPrice) /\ avgPrice.v > 100 * Scale THEN Str("HIGH")
  ELSE IF IsNum(avgPrice) /\ avgPrice.v > 150 * Scale THEN Str("VERY HIGH")
  ELSE Str("NORMAL")

\* day === 0 ? 'Today' : day === 1 ? 'Tomorrow' : `+${day} days`
DayName(day) ==
  IF day = 0 THEN Str("Today")
  ELSE IF day = 1 THEN Str("Tomorrow") ELSE [t |-> "string", s |-> "+days", days |-> day]

\* One pass of the outer loop: the prediction of the day `day` days from today.
Prediction(m, windData, today, day, tz) ==
  LET targetDate == AddDays(today, day)
      finlandPoints == SelectSeq(windData.a, InFinland)
      avgWindSpeed == DayAverage(finlandPoints, day, "windSpeed", Lit(5))
      avgTemperature == DayAverage(finlandPoints, day, "temperature", Lit(0))
      hourlyPredictions == HourlyPredictions(m, avgWindSpeed, avgTemperature, targetDate)
      avgPrice ==
        DivCount(SumTo([h \in 1..HoursPerDay |-> hourlyPredictions.a[h].price],
                       HoursPerDay), HoursPerDay)
  IN [t |-> "object",
      date |-> ToISODate(targetDate, tz),
      dayName |-> DayName(day),
      avgWindSpeed |-> RoundTo(avgWindSpeed, 10),
      avgTemperature |-> RoundTo(avgTemperature, 10),
      predictedPrice |-> RoundTo(avgPrice, 100),
      priceLevel |-> PriceLevel(avgPrice),
      hourlyPredictions |-> hourlyPredictions,
      confidence |-> Confidence(day)]

\* The outer loop running while day <= 9
PredictionsInclusive(m, windData, today, tz) ==
  Arr([d \in 1..(PredictionDays + 1) |-> Prediction(m, windData, today, d - 1, tz)])

\* The outer loop: the predictions for day = 0 .. 8
Predictions(m, windData, today, tz) ==
  Arr([d \in 1..PredictionDays |-> Prediction(m, windData, today, d - 1, tz)])

\* JSON.stringify of one prediction: a NaN number is written as null.
PredictionJson(p) ==
  [p EXCEPT !.avgWindSpeed = JsonScalar(@),
            !.avgTemperature = JsonScalar(@),
            !.predictedPrice = JsonScalar(@),
            !.hourlyPredictions =
               Arr([h \in 1..Len(@.a) |-> [@.a[h] EXCEPT !.price = JsonScalar(@)]])]

\* fs.writeFileSync(CONFIG.outputFile, JSON.stringify(output, null, 2)): the
\* content the prediction file has afterwards, whatever it held before.
WriteOutput(predictions, today, tz) ==
  Json([t |-> "object",
        generated |-> ToISODate(today, tz),
        model |-> Str("LinearRegression v1"),
        predictions |-> Arr([d \in 1..Len(predictions.a) |->
                               PredictionJson(predictions.a[d])])])

\* generatePredictions from the wind data on, with the model m
ForecastWith(m) ==
  \E sampleWind \in SampleWindGrids :
    LET wind == LoadForecastWind(windFile, sampleWind)
    IN IF wind.windData.t # "array"
       THEN /\ Fails(Throw("TypeError"))
            /\ UNCHANGED <<predictionFile, generated>>
       ELSE \E predictions \in {Predictions(m, wind.windData, DateAt(now, TZ), TZ)} :
              /\ generated' = [t |-> "call", model |-> m, windData |-> wind.windData,
                               sample |-> wind.sample, predictions |-> predictions]
              /\ predictionFile' = WriteOutput(predictions, DateAt(now, TZ), TZ)
              /\ stage' = "done"
              /\ UNCHANGED failure

\* main reaches generatePredictions without awaiting trainModel
PredictionsDueAtOnce ==
  /\ stage \in {"start", "trained"}
  /\ WantsPredictions

\* main reaches generatePredictions
PredictionsDue ==
  /\ stage = "trained" \/ (stage = "start" /\ "--train" \notin args)
  /\ WantsPredictions

\* generatePredictions when the model file loads
GeneratePredictions ==
  /\ PredictionsDue
  /\ \E r \in {load(NewModel, modelFile.content)} :
       /\ r.t # "throw"
       /\ Becomes(r)
       /\ ForecastWith(r)
  /\ UNCHANGED <<modelFile, last, ops, fits, fitFrame, featureVars, fetchVars, windFile,
                 priceFile, now, args, training, r2>>

\* generatePredictions when the model file does not load, going on with the
\* model the constructor made instead of calling trainModel
GeneratePredictionsUnfitted ==
  /\ PredictionsDue
  /\ load(NewModel, modelFile.content).t = "throw"
  /\ ForecastWith(NewModel)
  /\ UNCHANGED <<modelVars, featureVars, fetchVars, windFile, priceFile, now, args,
                 training, r2>>

\* generatePredictions when the model file does not load: trainModel is called
GeneratePredictionsUntrained ==
  /\ PredictionsDue
  /\ load(NewModel, modelFile.content).t = "throw"
  /\ TrainModelBegin("generatePredictions")
  /\ UNCHANGED <<featureVars, fetchVars, windFile, priceFile, predictionFile, now, args,
                 r2, generated>>

\* generatePredictions after the trainModel it called has returned
GeneratePredictionsTrained ==
  /\ stage = "forecast"
  /\ ForecastWith(this)
  /\ UNCHANGED <<modelVars, featureVars, fetchVars, windFile, priceFile, now, args,
                 training, r2>>

(***************************************************************************)
(* Runs of the process                                                     *)
(***************************************************************************)
\* Model files: a record of a trained model, records of constant models, a
\* record without bias, a record with two weights, and a record of a model
\* that gives 40 except for 39.97 in the morning peak.
Coefficients(w, b) ==
  [t |-> "text", weights |-> Arr([j \in 1..Len(w) |-> Milli(w[j])]),
   bias |-> Milli(b), featureNames |-> FeatureNames]
Constant(b) == Coefficients(<<0, 0, 0, 0, 0, 0, 0>>, b)
TrainedRecord == Coefficients(<<-2500, 800, 20000, 6000, 9000, -4000, -1200>>, 60000)
SurplusRecord == Coefficients(<<-9000, 0, 0, 5000, 5000, 0, 0>>, 20000)
MorningDipRecord == Coefficients(<<0, 0, 0, -30, 0, 0, 0>>, 40000)
ModelFiles ==
  { TrainedRecord, SurplusRecord, WeightsOnlyRecord, StoredRecord, MorningDipRecord,
    Constant(-30000), Constant(39990), Constant(40000), Constant(40010),
    Constant(100000), Constant(100010), Constant(150000), Constant(150010) }

\* The prediction file an earlier run left.
EarlierPredictions ==
  Json([t |-> "object", generated |-> Text(IsoDate(2029, 7, 1)),
        model |-> Str("LinearRegression v1"),
        predictions |-> Arr(<<[t |-> "object", date |-> Text(IsoDate(2029, 7, 1))]>>)])

\* 2029-07-29 10:00 and 23:00 UTC
Noon == DaysFromCivil(2029, 7, 29) * 24 + 10
Night == DaysFromCivil(2029, 7, 29) * 24 + 23

WindGridFile == Json([t |-> "object", data |-> MixedGrid])
WindErrorFile == Json([t |-> "object", error |-> Str("rate limited")])
PriceHistoryFile ==
  Json([t |-> "object", data |-> Arr(<<PricedRecord, FreeRecord, UnpricedRecord>>)])

Run(a, w, p, m, n) == [args |-> a, windFile |-> w, priceFile |-> p, modelFile |-> m, now |-> n]

\* The runs: training alone over every pair of data files; training and
\* predicting; predicting from a model file; predicting without a usable model
\* file; and a run whose arguments ask for neither.
Runs ==
  {Run({"--train"}, w, p, NoFile, Noon) : w \in WindFiles, p \in PriceFiles}
  \cup {Run({"--train", "--predict"}, w, PriceHistoryFile, m, Noon) :
          w \in {WindGridFile, WindErrorFile}, m \in {Garbage, TrainedRecord}}
  \cup {Run(a, w, PriceHistoryFile, m, n) :
          a \in {{}, {"--predict"}}, w \in WindFiles, m \in ModelFiles,
          n \in {Noon, Night}}
  \cup {Run({}, w, p, m, Noon) :
          w \in {NoFile, WindGridFile, WindErrorFile},
          p \in {NoFile, PriceHistoryFile, Json(Arr(<<PricedRecord>>))},
          m \in {NoFile, Garbage}}
  \cup {Run({"--verbose"}, NoFile, NoFile, NoFile, Noon)}

InitPipeline ==
  /\ weights = NewModel.weights
  /\ bias = NewModel.bias
  /\ featureNames = NewModel.featureNames
  /\ last = Idle
  /\ ops = 0
  /\ fits = 0
  /\ pc = "idle"
  /\ X = Undefined
  /\ y = Undefined
  /\ iter = 0
  /\ TZ = 2
  /\ features = NoCall
  /\ \E run \in Runs :
       /\ args = run.args
       /\ windFile = run.windFile
       /\ priceFile = run.priceFile
       /\ modelFile = [content |-> run.modelFile, savedFrom |-> Undefined]
       /\ now = run.now
  /\ predictionFile = EarlierPredictions
  /\ stage = "start"
  /\ training = NoCall
  /\ r2 = Undefined
  /\ failure = Undefined
  /\ generated = NoCall
  /\ NoFetch

NextPipeline ==
  \/ MainTrain
  \/ FitStep
  \/ FitReturn
  \/ TrainModelEnd
  \/ MainExit
  \/ GeneratePredictions
  \/ GeneratePredictionsUntrained
  \/ GeneratePredictionsTrained

SpecPipeline == InitPipeline /\ [][NextPipeline]_vars

(***************************************************************************)
(* The wind data fetcher: parseWeatherResponse and fetchAllData            *)
(***************************************************************************)
MAX_RETRIES == 3
ForecastDays == 9

\* An ISO timestamp of a timeseries entry: the instant in hours since 1970.
Timestamp(hours) == [t |-> "timestamp", hours |-> hours]

\* new Date(entry.time) as a number: NaN unless entry.time is a timestamp.
EntryTime(entry) ==
  LET time == Get(entry, "time")
  IN IF time.t = "throw" THEN time
     ELSE IF time.t = "timestamp" THEN Num(time.hours * Scale) ELSE NaN

\* data.properties?.timeseries || []
Timeseries(data) ==
  LET properties == Get(data, "properties")
  IN IF properties.t = "throw" THEN properties
     ELSE IF properties.t \in {"null", "undefined"} THEN Arr(<<>>)
     ELSE IF Truthy(Get(properties, "timeseries")) THEN Get(properties, "timeseries")
     ELSE Arr(<<>>)

\* targetDate: 12:00 local time of the day `day` days after today, as an
\* instant in hours since 1970.
TargetNoon(localNow, day, tz) == ((localNow \div 24) + day) * 24 + 12 - tz

\* Math.abs(entryDate - targetDate)
TimeDiff(entry, target) ==
  LET time == EntryTime(entry)
  IN IF ~IsNum(time) THEN time
     ELSE Num(IF time.v >= target * Scale THEN time.v - target * Scale
              ELSE target * Scale - time.v)

RECURSIVE ClosestFromNearby(_, _, _, _, _)
\* The loop over the timeseries taking an entry only when it lies within 12
\* hours of the target.
ClosestFromNearby(timeseries, target, i, closest, minDiff) ==
  IF i > Len(timeseries) THEN closest
  ELSE LET diff == TimeDiff(timeseries[i], target)
       IN IF diff.t = "throw" THEN diff
          ELSE IF IsNum(diff) /\ diff.v <= 12 * Scale
                  /\ (minDiff.t = "Infinity" \/ diff.v < minDiff.v)
               THEN ClosestFromNearby(timeseries, target, i + 1, timeseries[i], diff)
               ELSE ClosestFromNearby(timeseries, target, i + 1, closest, minDiff)

RECURSIVE ClosestFrom(_, _, _, _, _)
\* The loop over the timeseries from entry i on: closest and minDiff after it,
\* or the TypeError of an entry that is null.
ClosestFrom(timeseries, target, i, closest, minDiff) ==
  IF i > Len(timeseries) THEN closest
  ELSE LET diff == TimeDiff(timeseries[i], target)
       IN IF diff.t = "throw" THEN diff
          ELSE IF IsNum(diff) /\ (minDiff.t = "Infinity" \/ diff.v < minDiff.v)
               THEN ClosestFrom(timeseries, target, i + 1, timeseries[i], diff)
               ELSE ClosestFrom(timeseries, target, i + 1, closest, minDiff)

\* closest.data?.instant?.details || {}
InstantDetails(closest) ==
  LET data == Get(closest, "data")
      instant == IF data.t \in {"null", "undefined"} THEN Undefined ELSE Get(data, "instant")
      details == IF instant.t \in {"null", "undefined"} THEN Undefined
                 ELSE Get(instant, "details")
  IN IF Truthy(details) THEN details ELSE [t |-> "object"]

\* instant.<name> || fallback
DetailOr(details, name, fallback) ==
  IF Truthy(Get(details, name)) THEN Get(details, name) ELSE fallback

\* The entry pushed for a day.
DayForecast(closest, day) ==
  LET instant == InstantDetails(closest)
  IN [t |-> "object",
      day |-> Lit(day),
      windSpeed |-> DetailOr(instant, "wind_speed", Lit(0)),
      windDirection |-> DetailOr(instant, "wind_from_direction", Lit(0)),
      temperature |-> DetailOr(instant, "air_temperature", Lit(0)),
      humidity |-> DetailOr(instant, "relative_humidity", Lit(50))]

RECURSIVE ForecastsUpTo(_, _, _, _)
\* The entries pushed by the passes day = 0 .. lastDay of the loop over the days
ForecastsUpTo(timeseries, localNow, tz, lastDay) ==
  IF lastDay < 0 THEN <<>>
  ELSE LET before == ForecastsUpTo(timeseries, localNow, tz, lastDay - 1)
           closest == ClosestFrom(timeseries, TargetNoon(localNow, lastDay, tz), 1,
                                  Null, Infinity)
       IN IF Truthy(closest) THEN Append(before, DayForecast(closest, lastDay))
          ELSE before

\* parseWeatherResponse(data) at the local time localNow: the forecasts, or
\* the TypeError thrown.
parseWeatherResponse(data, localNow, tz) ==
  LET timeseries == Timeseries(data)
  IN IF timeseries.t = "throw" THEN timeseries
     ELSE IF timeseries.t # "array" THEN Throw("TypeError")
     ELSE IF \E i \in 1..Len(timeseries.a) : EntryTime(timeseries.a[i]).t = "throw"
          THEN Throw("TypeError")
     ELSE Arr(ForecastsUpTo(timeseries.a, localNow, tz, ForecastDays - 1))

\* How many points of the grid the model fetches; the source's grid has one
\* point every 1.5 degrees from 54 to 71.5 north and from 4 to 32 east.
MaxPoints == 2

\* generateGridPoints(): the points of the southernmost row, from the west.
GridPoint(i) == [lat |-> Lit(54), lon |-> Milli(4000 + 1500 * (i - 1))]

\* The details of a timeseries entry, and an entry at an instant.
Details(speed, direction, temperature, humidity) ==
  [t |-> "object", wind_speed |-> speed, wind_from_direction |-> direction,
   air_temperature |-> temperature, relative_humidity |-> humidity]
Entry(time, details) ==
  [t |-> "object", time |-> time,
   data |-> [t |-> "object", instant |-> [t |-> "object", details |-> details]]]
Response(timeseries) ==
  [t |-> "object", properties |-> [t |-> "object", timeseries |-> timeseries]]

\* An entry for 12:00 UTC of the day `day` days after 2029-07-29
NoonEntry(day) ==
  Entry(Timestamp((DaysFromCivil(2029, 7, 29) + day) * 24 + 12),
        Details(Milli(4000 + 500 * day), Lit(180 + day), Milli(15000 - 1000 * day), Lit(70)))

\* Bodies the weather service answers with: null; an object without
\* properties; no entry; an entry a day for ten days; one entry; entries for
\* three days; an entry of calm at 0 degrees; entries without a usable time;
\* an entry without data after one without a usable time; an entry that is
\* null; and a timeseries that is a number.
Responses ==
  { Null,
    [t |-> "object"],
    Response(Arr(<<>>)),
    Response(Arr([d \in 1..10 |-> NoonEntry(d - 1)])),
    Response(Arr(<<NoonEntry(0)>>)),
    Response(Arr(<<NoonEntry(2), NoonEntry(0), NoonEntry(1)>>)),
    Response(Arr(<<Entry(Timestamp(DaysFromCivil(2029, 7, 30) * 24),
                         Details(Lit(0), Lit(0), Lit(0), Lit(0)))>>)),
    Response(Arr(<<Entry(Str("soon"), Details(Lit(3), Lit(90), Lit(7), Lit(60))),
                   [t |-> "object"]>>)),
    Response(Arr(<<Entry(Undefined, Details(Lit(3), Lit(90), Lit(7), Lit(60))),
                   [t |-> "object", time |-> Timestamp(DaysFromCivil(2029, 8, 2) * 24)]>>)),
    Response(Arr(<<NoonEntry(0), Null>>)),
    Response(Lit(5)) }

\* fetchAllData begins: no result yet, the first point is next.
FetchAllData ==
  /\ results = Undefined
  /\ results' = Arr(<<>>)
  /\ point' = 0
  /\ retries' = 0
  /\ UNCHANGED <<modelVars, featureVars, pipelineVars, parsed>>

\* One pass of the retry loop for the current point: the request fails or
\* answers, the answer is parsed, and a point with forecasts is pushed.
FetchPoint ==
  /\ results # Undefined
  /\ windFile = NoFile
  /\ point < MaxPoints
  /\ retries < MAX_RETRIES
  /\ \E answer \in Responses \cup {Throw("HTTP 429")} :
       \E forecasts \in {IF answer.t = "throw" THEN answer
                         ELSE parseWeatherResponse(answer, now + TZ, TZ)} :
         /\ parsed' = [t |-> "call", data |-> answer, ret |-> forecasts]
         /\ IF forecasts.t = "throw"
            THEN /\ retries' = IF retries + 1 >= MAX_RETRIES THEN 0 ELSE retries + 1
                 /\ point' = IF retries + 1 >= MAX_RETRIES THEN point + 1 ELSE point
                 /\ UNCHANGED results
            ELSE /\ results' =
                      IF Len(forecasts.a) > 0
                      THEN Arr(Append(results.a,
                                      [t |-> "object",
                                       lat |-> GridPoint(point + 1).lat,
                                       lon |-> GridPoint(point + 1).lon,
                                       forecasts |-> forecasts]))
                      ELSE results
                 /\ point' = point + 1
                 /\ retries' = 0
  /\ UNCHANGED <<modelVars, featureVars, pipelineVars>>

\* saveData(data): the wind data file is written.
SaveData ==
  /\ results # Undefined
  /\ windFile = NoFile
  /\ point = MaxPoints
  /\ windFile' = Json([t |-> "object",
                       generated |-> ToISODate(DateAt(now, TZ), TZ),
                       pointCount |-> Lit(Len(results.a)),
                       data |-> results])
  /\ UNCHANGED <<modelVars, featureVars, priceFile, predictionFile, now, args,
                 stage, training, r2, failure, generated, fetchVars>>

InitFetch ==
  /\ weights = NewModel.weights
  /\ bias = NewModel.bias
  /\ featureNames = NewModel.featureNames
  /\ modelFile = [content |-> NoFile, savedFrom |-> Undefined]
  /\ last = Idle
  /\ ops = 0
  /\ fits = 0
  /\ pc = "idle"
  /\ X = Undefined
  /\ y = Undefined
  /\ iter = 0
  /\ TZ \in TimeZones
  /\ features = NoCall
  /\ windFile = NoFile
  /\ priceFile = NoFile
  /\ predictionFile = NoFile
  /\ now \in {Noon, Night}
  /\ args = {}
  /\ stage = "none"
  /\ training = NoCall
  /\ r2 = Undefined
  /\ failure = Undefined
  /\ generated = NoCall
  /\ NoFetch

NextFetch ==
  \/ FetchAllData
  \/ FetchPoint
  \/ SaveData

SpecFetch == InitFetch /\ [][NextFetch]_vars

(***************************************************************************)
(* Claims about generatePredictions and trainModel                         *)
(***************************************************************************)
\* generatePredictions has returned its predictions.
PredictionsReturned == stage = "done" /\ generated.t = "call"

\* The predictions the prediction file holds.
Persisted == predictionFile.value.predictions.a

\* The date, in UTC, of the day `offset` days after the instant of the run.
DateOfOffset(offset) ==
  LET civil == CivilFromDays((now \div 24) + offset)
  IN Text(IsoDate(civil.year, civil.month, civil.day))

\* C13: every run of generatePredictions that completes persists a record of
\* exactly 9 predictions, for the day offsets 0 .. 8 in ascending order, each
\* with exactly 24 hourly predictions whose hours are 0 .. 23 in order, and
\* the record replaces what the prediction file held: nothing of the earlier
\* record is left in it.
C13_NinePredictionsPersisted ==
  PredictionsReturned =>
    /\ predictionFile.t = "json"
    /\ DOMAIN predictionFile.value = {"t", "generated", "model", "predictions"}
    /\ predictionFile.value.generated = DateOfOffset(0)
    /\ Len(Persisted) = 9
    /\ Len(generated.predictions.a) = 9
    /\ \A d \in 1..9 :
         /\ Persisted[d] = PredictionJson(generated.predictions.a[d])
         /\ Persisted[d].date = DateOfOffset(d - 1)
         /\ Persisted[d].dayName = DayName(d - 1)
         /\ Len(Persisted[d].hourlyPredictions.a) = 24
         /\ \A h \in 1..24 : Persisted[d].hourlyPredictions.a[h].hour = Lit(h - 1)
    /\ \A d \in 1..9 : \A e \in 1..Len(EarlierPredictions.value.predictions.a) :
         Persisted[d] # EarlierPredictions.value.predictions.a[e]

\* A run has completed over a prediction file an earlier run left.
C13_Witness ==
  /\ PredictionsReturned
  /\ predictionFile # EarlierPredictions
  /\ Len(Persisted) = 9
  /\ Persisted[9].dayName.days = 8

\* A number that is at least 0
NonNegative(v) == IsNum(v) /\ v.v >= 0

\* C14: every hourly price of every prediction generatePredictions produces is
\* >= 0, and so is every daily predictedPrice, whatever the weights and the
\* bias of the model and whatever the forecast grid.
C14_PricesNonNegative ==
  PredictionsReturned =>
    \A d \in 1..Len(generated.predictions.a) :
      /\ \A h \in 1..Len(generated.predictions.a[d].hourlyPredictions.a) :
           NonNegative(generated.predictions.a[d].hourlyPredictions.a[h].price)
      /\ NonNegative(generated.predictions.a[d].predictedPrice)

\* The average of the 24 hourly prices of a prediction
AveragePrice(p) ==
  DivCount(SumTo([h \in 1..HoursPerDay |-> p.hourlyPredictions.a[h].price],
                 HoursPerDay), HoursPerDay)

\* LOW below 40, VERY HIGH above 150, HIGH above 100, NORMAL otherwise
Classified(avgPrice) ==
  IF IsNum(avgPrice) /\ avgPrice.v < 40 * Scale THEN Str("LOW")
  ELSE IF IsNum(avgPrice) /\ avgPrice.v > 150 * Scale THEN Str("VERY HIGH")
  ELSE IF IsNum(avgPrice) /\ avgPrice.v > 100 * Scale THEN Str("HIGH")
  ELSE Str("NORMAL")

\* C15: the priceLevel of each prediction is LOW when the day's average price
\* is below 40, VERY HIGH when it is above 150, HIGH when it is above 100 and
\* not above 150, and NORMAL otherwise; 39.99 gives LOW, 40.01 NORMAL, 100.01
\* HIGH and 150.01 VERY HIGH.
C15_PriceLevels ==
  PredictionsReturned =>
    \A d \in 1..Len(generated.predictions.a) :
      LET p == generated.predictions.a[d]
      IN /\ p.priceLevel = Classified(AveragePrice(p))
         /\ AveragePrice(p) = Milli(39990) => p.priceLevel = Str("LOW")
         /\ AveragePrice(p) = Milli(40010) => p.priceLevel = Str("NORMAL")
         /\ AveragePrice(p) = Milli(100010) => p.priceLevel = Str("HIGH")
         /\ AveragePrice(p) = Milli(150010) => p.priceLevel = Str("VERY HIGH")

\* a < b on doubles
DoubleLess(a, b) ==
  IF a.negative /\ b.negative THEN LessBits(b.bits, a.bits)
  ELSE IF a.negative THEN a.bits # ZeroBits \/ b.bits # ZeroBits
  ELSE IF b.negative THEN FALSE
  ELSE LessBits(a.bits, b.bits)

\* |a - b| <= 2^(-53) for non-negative doubles a and b
DoubleNear(a, b) ==
  LET distance == IF LessBits(a.bits, b.bits) THEN SubBits(b.bits, a.bits)
                  ELSE SubBits(a.bits, b.bits)
  IN ~LessBits([i \in BitPositions |-> IF i = 53 THEN 1 ELSE 0], distance)

\* The doubles nearest to 0.7, 0.65, 0.6, 0.55, 0.5, 0.45, 0.4, 0.35 and 0.3
Tenths ==
  <<Double07,
    Double(FALSE, HexDouble(<<4, 12, 12, 12, 12, 12, 12, 12, 12, 12, 12, 12, 13>>, 1)),
    Double(FALSE, HexDouble(<<3, 3, 3, 3, 3, 3, 3, 3, 3, 3, 3, 3, 3>>, 1)),
    Double(FALSE, HexDouble(<<1, 9, 9, 9, 9, 9, 9, 9, 9, 9, 9, 9, 10>>, 1)),
    Double(FALSE, HexDouble(<<0, 0, 0, 0, 0, 0, 0, 0, 0, 0, 0, 0, 0>>, 1)),
    Double(FALSE, HexDouble(<<12, 12, 12, 12, 12, 12, 12, 12, 12, 12, 12, 12, 13>>, 2)),
    Double(FALSE, HexDouble(<<9, 9, 9, 9, 9, 9, 9, 9, 9, 9, 9, 9, 10>>, 2)),
    Double(FALSE, HexDouble(<<6, 6, 6, 6, 6, 6, 6, 6, 6, 6, 6, 6, 6>>, 2)),
    Double03>>

\* 0.29999999999999993, the double just below 0.3
JustBelow03 == Double(FALSE, HexDouble(<<3, 3, 3, 3, 3, 3, 3, 3, 3, 3, 3, 3, 2>>, 2))

\* The confidences of the persisted predictions.
PersistedConfidence(d) == Persisted[d].confidence

\* The confidences decrease strictly and none is negative.
ConfidenceDecreases ==
  /\ \A d \in 1..8 : DoubleLess(PersistedConfidence(d + 1), PersistedConfidence(d))
  /\ \A d \in 1..9 : ~PersistedConfidence(d).negative

\* C16 as stated: the confidence at day offset d is 0.7 - 0.05 * d, so 0.7 at
\* offset 0 and 0.3 at offset 8; it decreases strictly over the 9 predictions
\* and is never negative in a persisted prediction.
C16_ConfidenceExact ==
  PredictionsReturned =>
    /\ \A d \in 1..9 : PersistedConfidence(d) = Tenths[d]
    /\ PersistedConfidence(1) = Double07
    /\ PersistedConfidence(9) = Double03
    /\ ConfidenceDecreases

\* C16, amended: the confidence at day offset d is the double-precision
\* result of 0.7 - d * 0.05, within 2^(-53) of 0.7 - 0.05 * d; it decreases
\* strictly over the 9 predictions, is 0.7 at offset 0 and
\* 0.29999999999999993 at offset 8, and is never negative in a persisted
\* prediction.
C16_ConfidenceRounded ==
  PredictionsReturned =>
    /\ \A d \in 1..9 : DoubleNear(PersistedConfidence(d), Tenths[d])
    /\ PersistedConfidence(1) = Double07
    /\ PersistedConfidence(9) = JustBelow03
    /\ ConfidenceDecreases

\* A run has persisted nine confidences, the last one below 0.3
C16_Witness ==
  /\ PredictionsReturned
  /\ Len(Persisted) = 9
  /\ DoubleLess(PersistedConfidence(9), Double03)
  /\ DoubleLess(PersistedConfidence(9), PersistedConfidence(1))

\* The file cannot be read as JSON: it is absent or not parsable.
Unreadable(file) == ReadJson(file).t = "throw"

\* The file is readable but holds no array, neither itself nor under data.
WrongShape(file) == ~Unreadable(file) /\ DataOrFile(ReadJson(file)).t # "array"

\* C17: a load failure is never fatal.  Whatever the wind data, price data and
\* model files are (absent, not parsable, or parsable but of the wrong shape),
\* the process does not fail: trainModel and generatePredictions complete,
\* sample data stands in for input that cannot be used, and the model and the
\* predictions are persisted.
C17_LoadFailureNeverFatal ==
  /\ stage # "failed"
  /\ (training.t = "call" /\ (Unreadable(windFile) \/ Unreadable(priceFile)))
       => training.data.sampleWind /\ training.data.samplePrice
  /\ (training.t = "call" /\ WrongShape(priceFile)) => training.data.samplePrice
  /\ (stage \in {"trained", "forecast", "done"} /\ training.t = "call")
       => modelFile.savedFrom.t = "model"
  /\ (PredictionsReturned /\ Unreadable(windFile)) => generated.sample
  /\ PredictionsReturned => predictionFile # EarlierPredictions

\* The data files are read and the price history holds zero records.
EmptyHistory ==
  /\ ~Unreadable(windFile)
  /\ ~Unreadable(priceFile)
  /\ DataOrFile(ReadJson(priceFile)).t = "array"
  /\ Len(DataOrFile(ReadJson(priceFile)).a) = 0

\* trainModel has been called: main calls it first under --train.
TrainModelCalled == "--train" \in args /\ stage # "start"

\* C18: when the price history holds zero records, trainModel surfaces an
\* explicit error to its caller: it does not fit a model and does not persist
\* one.
C18_EmptyHistoryIsAnError ==
  (EmptyHistory /\ TrainModelCalled) =>
    /\ stage = "failed"
    /\ failure.t = "throw"
    /\ training = NoCall
    /\ pc = "idle"
    /\ modelFile.savedFrom.t # "model"

\* C19: the R2 score trainModel reports is a finite number for every training
\* set, the sets whose targets are all identical included: never an infinity,
\* never the NaN of a division of zero by zero.
C19_R2Finite == r2 # Undefined => IsFinite(r2)

\* The price history trainModel trains on.
History == training.data.priceData.a

\* C20: trainModel builds one training sample per price record, in record
\* order: row i of X is extractFeatures of record i's date with i as the day
\* index, y[i] is record i's avgPrice whenever the record has one and 50 only
\* when it has none, and X and y have the length of the price history.
C20_OneSamplePerRecord ==
  training.t = "call" =>
    /\ Len(X.a) = Len(History)
    /\ Len(y.a) = Len(History)
    /\ \A i \in 1..Len(History) :
         /\ X.a[i] = extractFeatures(training.data.windData, training.data.priceData,
                                     History[i].date, i - 1, TZ)
         /\ "avgPrice" \in DOMAIN History[i] => y.a[i] = History[i].avgPrice
         /\ "avgPrice" \notin DOMAIN History[i] => y.a[i] = Lit(50)

\* trainModel was called by generatePredictions and has returned.
TrainedForPredictions ==
  /\ training.t = "call"
  /\ training.caller = "generatePredictions"
  /\ stage \in {"forecast", "done", "failed"}

\* C21: when the persisted model cannot be loaded, generatePredictions runs
\* trainModel first and predicts with the model it returns; at the end of
\* such a run a model record has been persisted, and it was written before
\* the prediction record.
C21_TrainsFirstOnMiss ==
  /\ (PredictionsReturned /\ modelFile.savedFrom = Undefined)
       => /\ load(NewModel, modelFile.content).t # "throw"
          /\ generated.model = load(NewModel, modelFile.content)
  /\ TrainedForPredictions
       => /\ modelFile.savedFrom = this
          /\ modelFile.content = save(this)
          /\ weights.t = "array"
  /\ (TrainedForPredictions /\ PredictionsReturned) => generated.model = modelFile.savedFrom
  /\ (training.t = "call" /\ training.caller = "generatePredictions"
        /\ predictionFile # EarlierPredictions)
       => modelFile.savedFrom.t = "model"
  /\ (training.t = "call" /\ training.caller = "generatePredictions"
        /\ stage \in {"training", "forecast"})
       => predictionFile = EarlierPredictions

\* A run without a loadable model file has trained, saved and predicted.
C21_Witness ==
  /\ TrainedForPredictions
  /\ PredictionsReturned
  /\ "--train" \notin args
  /\ modelFile.savedFrom = generated.model
  /\ predictionFile # EarlierPredictions

\* trainModel has persisted a model record in this run.
ModelPersisted == modelFile.savedFrom.t = "model" /\ training.t = "call"

\* C22: every model record trainModel persists has exactly 7 weights and
\* exactly 7 featureNames, position j of weights being the coefficient of the
\* feature named at position j: the rows the weights were fitted to hold the
\* features in the order of the names (the flags at 3 .. 6, and at 7 the
\* product of the wind speed at 1 and the winter flag at 3).
C22_SevenWeightsSevenNames ==
  /\ training.t = "call" =>
       /\ featureNames.t = "array"
       /\ Len(featureNames.a) = 7
       /\ \A i \in 1..Len(X.a) :
            /\ Len(X.a[i].a) = 7
            /\ \A j \in 3..6 : X.a[i].a[j] \in {Lit(0), Lit(1)}
            /\ X.a[i].a[7] = Mul(X.a[i].a[1], X.a[i].a[3])
  /\ ModelPersisted =>
       /\ modelFile.content.weights.t = "array"
       /\ Len(modelFile.content.weights.a) = 7
       /\ modelFile.content.featureNames.t = "array"
       /\ Len(modelFile.content.featureNames.a) = 7
       /\ modelFile.content.featureNames.a =
            <<Str("windSpeed"), Str("temperature"), Str("isWinter"),
              Str("isMorningPeak"), Str("isEveningPeak"), Str("isWeekend"),
              Str("windSpeed_x_isWinter")>>
       /\ \A j \in 1..7 : modelFile.content.weights.a[j] = JsonScalar(weights.a[j])

\* trainModel has persisted a model fitted to a winter record and a weekend
\* record.
C22_Witness ==
  /\ ModelPersisted
  /\ Len(modelFile.content.weights.a) = 7
  /\ \E i \in 1..Len(X.a) : X.a[i].a[3] = Lit(1)
  /\ \E i \in 1..Len(X.a) : X.a[i].a[6] = Lit(1)

\* The fitted state of the lifecycle: weights populated.
Fitted(m) == m.weights.t = "array"

\* C23: the model is uninitialized (weights = null) and then fitted: after
\* any fit or load that completes the weights are populated, and no fit, load,
\* predict, getCoefficients or save call brings a fitted model back to
\* weights = null.
C23_FittedStaysFitted ==
  /\ (last.op \in {"fit", "load"} /\ last.ret = Str("this")) => Fitted(this)
  /\ (last.op \in {"fit", "load", "predict", "save"} /\ Fitted(last.pre))
       => Fitted(this)

\* What a record holds for a field: undefined for a field it lacks.
Held(field) == IF field.t = "absent" THEN Undefined ELSE field

\* A load call completes in this step.
LoadCompletes ==
  /\ last' # last
  /\ last'.op = "load"
  /\ last'.ret = Str("this")

\* C24: load replaces weights, bias and featureNames by what the record
\* holds and keeps nothing of the model's previous state: after a load every
\* field equals the record's, undefined for a field the record lacks, and the
\* weights are taken whatever their number.
C24_LoadReplacesAll ==
  [][LoadCompletes =>
       /\ weights' = Held(modelFile.content.weights)
       /\ bias' = Held(modelFile.content.bias)
       /\ featureNames' = Held(modelFile.content.featureNames)]_vars

\* A fitted model has loaded a record of two weights that lacks bias and
\* featureNames.
C24_Witness ==
  /\ last.op = "load"
  /\ last.ret = Str("this")
  /\ last.pre.weights.t = "array"
  /\ last.pre.bias # Undefined
  /\ weights = WeightsOnlyRecord.weights
  /\ Len(weights.a) = 2
  /\ bias = Undefined
  /\ featureNames = Undefined

\* C25: no prediction generatePredictions produces has the priceLevel
\* 'VERY HIGH': the test against 100 comes before the test against 150, so
\* the levels are LOW, NORMAL and HIGH only, whatever the model and the grid.
C25_NeverVeryHigh ==
  PredictionsReturned =>
    \A d \in 1..Len(generated.predictions.a) :
      /\ generated.predictions.a[d].priceLevel \in {Str("LOW"), Str("NORMAL"), Str("HIGH")}
      /\ Persisted[d].priceLevel # Str("VERY HIGH")

\* A day whose average price is above 150 has been given the level HIGH.
C25_Witness ==
  /\ PredictionsReturned
  /\ \E d \in 1..Len(generated.predictions.a) :
       /\ IsNum(AveragePrice(generated.predictions.a[d]))
       /\ AveragePrice(generated.predictions.a[d]).v > 150 * Scale
       /\ generated.predictions.a[d].priceLevel = Str("HIGH")

\* At most 9 entries, the entry at position i being the one of day i
DaysInOrder(forecasts) ==
  /\ Len(forecasts) <= 9
  /\ \A i \in 1..Len(forecasts) : forecasts[i].day = Lit(i - 1)

\* C26: in every forecast grid the program produces, by parseWeatherResponse
\* from a fetched response or by generateSampleWindData, each point's
\* forecasts are at most 9 and the entry at position i has day = i;
\* parseWeatherResponse yields no entry or exactly 9, never a sequence with a
\* gap.
C26_ForecastDaysInOrder ==
  /\ (parsed.t = "call" /\ parsed.ret.t = "array")
       => /\ Len(parsed.ret.a) \in {0, 9}
          /\ DaysInOrder(parsed.ret.a)
  /\ results # Undefined
       => \A i \in 1..Len(results.a) :
            /\ DaysInOrder(results.a[i].forecasts.a)
            /\ Len(results.a[i].forecasts.a) = 9
  /\ windFile # NoFile
       => \A i \in 1..Len(windFile.value.data.a) :
            DaysInOrder(windFile.value.data.a[i].forecasts.a)
  /\ \A grid \in SampleWindGrids : \A i \in 1..Len(grid.a) :
       DaysInOrder(grid.a[i].forecasts.a) /\ Len(grid.a[i].forecasts.a) = 9

\* A response whose entries cover three days has been parsed into nine
\* forecasts, and a grid of two points has been saved.
C26_Witness ==
  /\ parsed.t = "call"
  /\ parsed.data = Response(Arr(<<NoonEntry(2), NoonEntry(0), NoonEntry(1)>>))
  /\ Len(parsed.ret.a) = 9
  /\ parsed.ret.a[9].day = Lit(8)
  /\ windFile # NoFile
  /\ Len(windFile.value.data.a) = 2

\* The run was started with both --train and --predict
TrainAndPredict == "--train" \in args /\ "--predict" \in args

\* C27: with both --train and --predict, prediction starts only after
\* trainModel has finished and persisted the model, so the predictions are
\* computed with the model trained in that run; with --train alone no
\* prediction record is written; with no arguments only prediction runs.
C27_TrainThenPredict ==
  /\ (TrainAndPredict /\ training.t = "call") => training.caller = "main"
  /\ (TrainAndPredict /\ (generated.t = "call" \/ predictionFile # EarlierPredictions))
       => /\ training.t = "call"
          /\ pc = "idle"
          /\ modelFile.savedFrom.t = "model"
          /\ modelFile.content = save(modelFile.savedFrom)
  /\ (TrainAndPredict /\ generated.t = "call")
       => /\ generated.model = load(NewModel, modelFile.content)
          /\ generated.model.weights = modelFile.savedFrom.weights
          /\ generated.model.bias = modelFile.savedFrom.bias
  /\ args = {"--train"}
       => /\ predictionFile = EarlierPredictions
          /\ generated = NoCall
          /\ stage \in {"start", "training", "trained", "done", "failed"}
  /\ (args = {} /\ training.t = "call") => training.caller = "generatePredictions"
  /\ (args = {} /\ stage = "done") => generated.t = "call"

\* A run with both arguments over an older model file has predicted with the
\* model it trained.
C27_Witness ==
  /\ TrainAndPredict
  /\ PredictionsReturned
  /\ generated.model.weights = modelFile.savedFrom.weights
  /\ generated.model.weights # load(NewModel, TrainedRecord).weights
  /\ modelFile.content # TrainedRecord

\* The local date and hour of a date object as a date-time string
LocalDateTime(date) ==
  LET civil == CivilFromDays(date.hours \div 24)
  IN Text(IsoDateTime(civil.year, civil.month, civil.day, date.hours % 24, 0))

\* The feature vector generatePredictions builds for the hour of day offset d
PredictionFeatures(windData, d, hour) ==
  LET finlandPoints == SelectSeq(windData.a, InFinland)
      date == SetHours(AddDays(DateAt(now, TZ), d), hour)
  IN HourFeatures(DayAverage(finlandPoints, d, "windSpeed", Lit(5)),
                  DayAverage(finlandPoints, d, "temperature", Lit(0)), date, hour)

\* The vector extractFeatures returns for the same grid, date-time and index
TrainingFeatures(windData, d, hour) ==
  extractFeatures(windData, Arr(<<>>),
                  LocalDateTime(SetHours(AddDays(DateAt(now, TZ), d), hour)), d, TZ)

\* C28: for the same forecast grid, day offset d in 0 .. 8 and date-time, the
\* feature vector generatePredictions builds for an hour equals the vector
\* extractFeatures returns for that grid, that date-time and dayIndex d.
C28_SameFeatures ==
  PredictionsReturned =>
    \A d \in 0..8 : \A hour \in {0, 8, 18, 23} :
      PredictionFeatures(generated.windData, d, hour)
        = TrainingFeatures(generated.windData, d, hour)

\* C29: in every persisted prediction the priceLevel agrees with the
\* persisted predictedPrice under the thresholds applied: LOW exactly when
\* predictedPrice < 40 and HIGH exactly when predictedPrice > 100, the
\* rounding of predictedPrice to two decimals notwithstanding.
C29_LevelAgreesWithPrice ==
  PredictionsReturned =>
    \A d \in 1..Len(Persisted) :
      /\ Persisted[d].priceLevel = Str("LOW")
           <=> (IsNum(Persisted[d].predictedPrice)
                  /\ Persisted[d].predictedPrice.v < 40 * Scale)
      /\ Persisted[d].priceLevel = Str("HIGH")
           <=> (IsNum(Persisted[d].predictedPrice)
                  /\ Persisted[d].predictedPrice.v > 100 * Scale)

\* A fit on a fresh model is running or has returned.
FreshFitUnderWay ==
  /\ last.op = "fit"
  /\ last.pre = NewModel
  /\ last.ret.t # "throw"
  /\ X.t = "array"

\* Feature column j is 0 in every sample of X
ZeroColumn(j) == \A i \in 1..Len(X.a) : Index(X.a[i], j) = Lit(0)

\* C30: if feature column j is 0 in every sample of X, the fit of a fresh
\* model leaves weights[j] at exactly 0 in every iteration and at its end,
\* whatever the targets y and the other columns are.
C30_ZeroColumnZeroWeight ==
  FreshFitUnderWay =>
    \A j \in 1..Len(weights.a) : ZeroColumn(j) => weights.a[j] = Lit(0)

====
